---- MODULE Spec2Model ----
(***************************************************************************)
(* A state-machine model of physlearn.supervised.regression: the Regressor *)
(* orchestrator (fit, baseboostcv, predict, cross_validate, search,        *)
(* nested_cross_validate).  The backend libraries (scikit-learn, bayes-opt,*)
(* the pipeline builder) are external: what they compute (scores, best     *)
(* parameters) is drawn nondeterministically from small sets, what the     *)
(* orchestrator does with it is translated from the source.                *)
(*                                                                         *)
(* Python's None is the empty set for optional integers ({} / {k}) and the *)
(* record NoneObj for optional objects.  Rows are positions 0..n-1.        *)
(***************************************************************************)
EXTENDS Integers, Sequences, FiniteSets, TLC

\* ------------------------------------------------------------------ bounds
\* Number of rows of the data set handed to an entry point.
MaxRows == 5
\* Largest fold count (self.cv, and the cv / outer_cv / inner_cv arguments).
MaxCv == 2
\* Largest magnitude of a score the backend reports.
MaxScore == 1
\* Number of columns of the feature matrix handed to predict.
NCols == 2
\* Largest value of a regressor parameter.
MaxParam == 1
\* Largest number of keyword arguments of a set_params call.
MaxKwargs == 2
\* Largest row count and fold count the fold-size estimate is computed for.
MaxEstimateRows == 8
\* Largest number of calls of the public methods made on one Regressor.
MaxCalls == 3

ScoreVals == 0..MaxScore
\* The magnitudes of the scores a search or a scorer of the backend reports.
BestScores == 1..MaxScore
FoldCounts == 2..MaxCv
\* The searched hyperparameter of a pipeline: the constructor's value, or the
\* best value a search found.
DefaultParam == "default"
BestParam == "best"
\* Row counts of the data sets handed to the entry points.
RowCounts == {MaxRows}
\* Feature matrices handed to predict: one row, NCols columns, whose entries
\* alternate 0/1 so that neighbouring columns differ.
PredictInputs == {[r \in 1..1 |-> [c \in 1..NCols |-> (c + d) % 2]] : d \in 0..1}
\* The cv arguments drawn: None, or a fold count.
CvArgs == {{}} \cup {{k} : k \in FoldCounts}

NoneObj == [kind |-> "None"]

\* ------------------------------------------------------------- variables
VARIABLES
    cfg,                \* constructor arguments (never reassigned by the code)
    calls,              \* how many calls of public methods were made on the object
    params,             \* self.params: the mapping get_params returns
    _validated_data,    \* hasattr(self, '_validated_data')
    pipe,               \* self.pipe, NoneObj while the attribute is missing
    _return_incumbent,  \* hasattr(self, '_return_incumbent')
    return_incumbent_,  \* hasattr(self, 'return_incumbent_')
    _regressor_search,  \* self._regressor_search
    optimization,       \* self.optimization
    best_params_,       \* self.best_params_
    best_score_,        \* self.best_score_
    search_summary_,    \* self.search_summary_
    cv_results_,        \* self.cv_results_
    refit_time_,        \* self.refit_time_
    best_regressor_,    \* self.best_regressor_
    ncv,                \* the nested_cross_validate call in progress
    call                \* the last completed call: arguments, outcome, what it did

search_vars == <<_regressor_search, optimization, best_params_, best_score_,
                 search_summary_, cv_results_, refit_time_, best_regressor_>>
result_vars == <<optimization, best_params_, best_score_, search_summary_,
                 cv_results_, refit_time_>>
flag_vars == <<_return_incumbent, return_incumbent_>>
vars == <<cfg, calls, params, _validated_data, pipe, _return_incumbent, return_incumbent_,
          _regressor_search, optimization, best_params_, best_score_,
          search_summary_, cv_results_, refit_time_, best_regressor_, ncv, call>>

\* ---------------------------------------------------------- configuration
NegErrorScorings == {"neg_mean_absolute_error", "neg_mean_squared_error"}
Scorings == {"neg_mean_absolute_error", "r2"}
\* target_index: None ({}) or the position of the last column.
TargetIndices == {{}, {NCols - 1}}

\* Regressor.__init__: the options the modelled operations read.
Configs ==
    [target_index : TargetIndices,
     return_train_score : BOOLEAN,
     refit : BOOLEAN,
     scoring : Scorings,
     cv : {MaxCv}]

\* The parameters of the backend regressor (the keys of self.params) and the
\* values drawn for them; a fresh regressor holds 0 for each.
ParamKeys == {"alpha", "tol"}
ParamValues == 0..MaxParam

\* ------------------------------------------------------------ pure helpers
RECURSIVE SumSeq(_)
SumSeq(s) == IF s = <<>> THEN 0 ELSE Head(s) + SumSeq(Tail(s))

Abs(x) == IF x < 0 THEN -x ELSE x

\* cv=None falls back to self.cv.
ResolveCv(cvarg, selfcv) == IF cvarg = {} THEN selfcv ELSE CHOOSE k \in cvarg : TRUE

\* np.full(shape, fill_value) and np.max of a non-empty array.
np_full(shape, fill_value) == [i \in 1..shape |-> fill_value]
np_max(a) == CHOOSE m \in {a[i] : i \in DOMAIN a} : \A i \in DOMAIN a : a[i] <= m

\* isinstance(cv, int): the fold count is cv itself, else cv.n_splits.
FoldCountOf(cv) == IF cv.kind = "int" THEN cv.value ELSE cv.n_splits

\* The estimate without the one-row margin.
EstimateWithoutMargin(n, k) == n - np_max(np_full(n, n \div k))

\* Regressor._estimate_fold_size for k folds:
\* n_samples - (max(full(n_samples, n_samples // k)) + 1)
_estimate_fold_size(n, k) == n - (np_max(np_full(n, n \div k)) + 1)

\* The same estimate as _modified_cross_validate computes it in line.
estimate_fold_size(n, k) == n - (np_max(np_full(n, n \div k)) + 1)

\* sklearn KFold (no shuffle): the first n % k folds hold n // k + 1 rows, the
\* others n // k; fold i (1..k) tests a contiguous block of positions.
KFoldSize(n, k, i) == (n \div k) + (IF i <= n % k THEN 1 ELSE 0)
RECURSIVE KFoldStart(_, _, _)
KFoldStart(n, k, i) == IF i = 1 THEN 0 ELSE KFoldStart(n, k, i - 1) + KFoldSize(n, k, i - 1)
KFoldTest(n, k, i) == KFoldStart(n, k, i) .. (KFoldStart(n, k, i) + KFoldSize(n, k, i) - 1)
KFoldTrain(n, k, i) == (0..(n - 1)) \ KFoldTest(n, k, i)

\* The sign convention of the backend's scorers: those named neg_... report
\* the negated error.
BackendScore(scoring, m) ==
    IF Len(scoring) >= 4 /\ SubSeq(scoring, 1, 4) = "neg_" THEN -m ELSE m

\* Targets handed to _check_target_index: a Series, or a DataFrame of 1..NCols
\* columns, of TargetRows rows.  An entry v stands for the number v / 2, so
\* that 0, 1/2, 1 and 2 are drawn: targets of one, two and three distinct
\* whole values and targets with a fractional value all occur.
TargetRows == 2
TargetValues == {0, 1, 2, 4}
Targets ==
    {[kind |-> "Series", cols |-> <<col>>] : col \in [1..TargetRows -> TargetValues]}
    \cup UNION {{[kind |-> "DataFrame", cols |-> cols] :
                     cols \in [1..c -> [1..TargetRows -> TargetValues]]} :
                   c \in 1..NCols}

_MULTI_TARGET == {"continuous-multioutput", "multiclass-multioutput"}

\* sklearn.utils.multiclass.type_of_target of a dense y.  unique is
\* np.unique(y), whole tells a whole number, multicolumn is y.ndim == 2 and
\* y.shape[1] > 1.  The multilabel test comes first (is_multilabel: more than
\* one column, fewer than three distinct values, all of them whole); then a
\* y with a fractional value is continuous, any other y is multiclass when it
\* has more than two distinct values or more than one column, else binary;
\* more than one column adds -multioutput.
type_of_target(y) ==
    LET unique == {y.cols[j][r] : j \in DOMAIN y.cols, r \in 1..TargetRows}
        whole == {v \in unique : v % 2 = 0}
        multicolumn == y.kind = "DataFrame" /\ Len(y.cols) > 1
    IN  IF multicolumn /\ Cardinality(unique) < 3 /\ whole = unique
        THEN "multilabel-indicator"
        ELSE IF whole # unique
        THEN (IF multicolumn THEN "continuous-multioutput" ELSE "continuous")
        ELSE IF multicolumn THEN "multiclass-multioutput"
        ELSE IF Cardinality(unique) > 2 THEN "multiclass"
        ELSE "binary"

\* y.iloc[:, k]: column k (from 0) as a Series; out of range is an IndexError.
Iloc(y, k) ==
    IF k + 1 \in DOMAIN y.cols
    THEN [err |-> "ok", y |-> [kind |-> "Series", cols |-> <<y.cols[k + 1]>>]]
    ELSE [err |-> "IndexError", y |-> y]

\* _check_target_index: slice only a y that type_of_target calls multi-target,
\* and only when target_index is set.
_check_target_index(y, ti) ==
    IF ti # {} /\ type_of_target(y) \in _MULTI_TARGET
    THEN Iloc(y, CHOOSE k \in ti : TRUE)
    ELSE [err |-> "ok", y |-> y]

\* The target widths drawn for the entry points that take y: one column, or
\* NCols columns.
TargetWidths == {1, NCols}

\* The target of yc columns handed to an entry point: a regression target
\* with fractional values, column j (from 1) holding j/2, (j+1)/2, ...
RegressionTarget(yc) ==
    [kind |-> "DataFrame", cols |-> [j \in 1..yc |-> [r \in 1..TargetRows |-> j + r - 1]]]

\* The target an entry point works on: its y after the slicing every entry
\* point starts with; the type and the number of columns of that target.
EntryTarget(yc, ti) == _check_target_index(RegressionTarget(yc), ti).y
TargetType(yc, ti) == type_of_target(EntryTarget(yc, ti))
TargetWidth(yc, ti) == Len(EntryTarget(yc, ti).cols)

\* get_pipeline: the pipe attribute, unfitted, sized with n_quantiles.
\* oid names the object: 0 is the object self.pipe refers to, i >= 1 a copy made
\* for fold i.  fittedOn holds the rows and fittedCols the number of target
\* columns of the last fit of the regressor ({} and 0 while it is unfitted).
get_pipeline(nq, tt) ==
    [kind |-> "Pipeline", oid |-> 0, n_quantiles |-> nq, target_type |-> tt,
     param |-> DefaultParam, fittedOn |-> {}, fittedCols |-> 0]

\* self.pipe holds an estimator: a pipeline, or a sub-estimator regattr left
\* there.  Both fit, predict and are cloned.
IsEstimator(x) == x.kind \in {"Pipeline", "SubEstimator"}

\* sklearn.base.clone: a new unfitted object with the same parameters.
clone(est, fresh) == [est EXCEPT !.oid = fresh, !.fittedOn = {}, !.fittedCols = 0]

\* estimator.fit on the rows `rows` of a target of `cols` columns.
FitOn(est, rows, cols) == [est EXCEPT !.fittedOn = rows, !.fittedCols = cols]

\* self.best_regressor_ is only ever assigned together with self.pipe, to the
\* same object (lines 767-768): while it has the name (oid) of the object p
\* that self.pipe refers to, what is done to that object in place is done to it.
SameObject(br, p) == IF br.kind = "None" \/ br.oid # p.oid THEN br ELSE p

\* An object self.pipe referred to until self.pipe was assigned another
\* object: it is named apart from the new one.
Former(est) == IF est.kind = "None" \/ est.oid # 0 THEN est ELSE [est EXCEPT !.oid = -1]

\* The estimator self._regressor_search holds (its best_estimator_) or is.
HeldEstimator(rs) ==
    IF IsEstimator(rs) THEN rs
    ELSE IF rs.kind \in {"GridSearchCV", "RandomizedSearchCV"} /\ rs.fitted
    THEN rs.best_estimator_
    ELSE NoneObj

\* self._regressor_search when the estimator it holds or is shows as e.
WithEstimator(rs, e) ==
    IF IsEstimator(rs) THEN e
    ELSE IF rs.kind \in {"GridSearchCV", "RandomizedSearchCV"} /\ rs.fitted
    THEN [rs EXCEPT !.best_estimator_ = e]
    ELSE rs

\* A pipe built by every call, whether one exists or not.
PipeRebuilt(p, nq, tt) == get_pipeline(nq, tt)

\* hasattr(self, 'pipe') or build it with the given n_quantiles.
PipeOrBuild(p, nq, tt) == IF p.kind = "None" THEN get_pipeline(nq, tt) ELSE p
BuildTrace(p) == IF p.kind = "None" THEN <<"get_pipeline">> ELSE <<>>

\* --------------------------------------------------------- _validate_data
\* BaseRegressor._validate_data(X, y) with the attribute _validated_data
\* present (flag) or not; hasX / hasy tell which arguments are not None.
\* `validated` tells whether the data checks were run on the arguments (else
\* the arguments are returned as they came).  First, a variant that sets the
\* attribute on any data.
ValidateSettingOnAny(flag, hasX, hasy) ==
    IF hasX \/ hasy
    THEN [err |-> "ok", flag |-> TRUE, validated |-> ~flag]
    ELSE [err |-> "ValueError", flag |-> flag, validated |-> FALSE]

_validate_data(flag, hasX, hasy) ==
    IF hasX /\ hasy
    THEN [err |-> "ok", flag |-> TRUE, validated |-> ~flag]
    ELSE IF hasX \/ hasy
    THEN [err |-> "ok", flag |-> flag, validated |-> ~flag]
    ELSE [err |-> "ValueError", flag |-> flag, validated |-> FALSE]

\* The entry points that start with self._validate_data(X=X, y=y).
ValidatesBoth ==
    {"fit", "cross_validate", "cross_val_score", "baseboostcv", "search",
     "nested_cross_validate"}

\* The message of the ValueError of _validate_data.
NoDataMessage ==
    "Both the data matrix X and the target matrix y are None. Thus, there is no data to validate."

\* ----------------------------------------------------------------- Init
\* A Regressor after construction: no attribute but the constructor's.
Fresh ==
    /\ calls = 0
    /\ params = [key \in ParamKeys |-> 0]
    /\ _validated_data = FALSE
    /\ pipe = NoneObj
    /\ _return_incumbent = FALSE
    /\ return_incumbent_ = FALSE
    /\ _regressor_search = NoneObj
    /\ optimization = NoneObj
    /\ best_params_ = NoneObj
    /\ best_score_ = NoneObj
    /\ search_summary_ = NoneObj
    /\ cv_results_ = NoneObj
    /\ refit_time_ = NoneObj
    /\ best_regressor_ = NoneObj
    /\ ncv = NoneObj
    /\ call = [op |-> "init", err |-> "ok", trace |-> <<>>]

Init == cfg \in Configs /\ Fresh

Idle == ncv.kind = "None"

\* A call of a public method begins: no other call is under way, and the
\* object has calls left.
Enter == Idle /\ calls < MaxCalls /\ calls' = calls + 1

\* ------------------------------------------------------------------ fit
\* `sub in msg` of two Python strings: sub occurs in msg, character by
\* character, at some position.
Contains(msg, sub) ==
    \E i \in 1..(Len(msg) - Len(sub) + 1) : SubSeq(msg, i, i + Len(sub) - 1) = sub

\* What regressor.fit(X=X, y=y, sample_weight=sample_weight) of the backend
\* does: it fits ("ok"), or raises a TypeError with one of these messages.
\* The first is the interpreter's message for a fit that has no such keyword
\* (it quotes the keyword), the second names the keyword bare inside a
\* sentence, the last is a TypeError of another cause.
UnexpectedKeywordQuoted == "fit() got an unexpected keyword argument 'sample_weight'"
UnexpectedKeywordSentence == "fit() got an unexpected keyword argument sample_weight."
OtherTypeError == "float() argument must be a number"
BackendTypeErrors ==
    {UnexpectedKeywordQuoted, UnexpectedKeywordSentence, OtherTypeError}
BackendFitOutcomes == {"ok"} \cup BackendTypeErrors

\* 'unexpected keyword argument sample_weight' in str(exc)
Reraises(msg) == Contains(msg, "unexpected keyword argument sample_weight")

\* _fit: without sample_weight the backend's fit; with it, the backend's fit
\* inside try / except TypeError, re-raised only when the message matches.
\* The regressor is whatever self.pipe holds.
_fit(p, rows, cols, sw, outcome) ==
    IF ~sw \/ outcome = "ok"
    THEN [pipe |-> FitOn(p, rows, cols), err |-> "ok", trace |-> <<"full_fit">>]
    ELSE IF Reraises(outcome)
    THEN [pipe |-> p, err |-> "TypeError", trace |-> <<>>]
    ELSE [pipe |-> p, err |-> "ok", trace |-> <<>>]

\* BaseRegressor.fit on n rows of a target of type tt and cols columns:
\* build the pipe when missing (n_quantiles = n_samples), fit the pipe on all
\* rows.
BaseFit(p, n, tt, cols, sw, outcome) ==
    _fit(PipeOrBuild(p, n, tt), 0..(n - 1), cols, sw, outcome)

\* A fit call without sample_weight takes the backend's plain fit, which fits.
Fit(n, yc, sw, outcome) ==
    /\ Enter
    /\ ~sw => outcome = "ok"
    /\ _validated_data' = _validate_data(_validated_data, TRUE, TRUE).flag
    /\ LET out == BaseFit(pipe, n, TargetType(yc, cfg.target_index),
                          TargetWidth(yc, cfg.target_index), sw, outcome) IN
        /\ pipe' = out.pipe
        /\ call' = [op |-> "fit", err |-> out.err, n |-> n, yc |-> yc,
                    sample_weight |-> sw,
                    backend |-> outcome,
                    trace |-> BuildTrace(pipe) \o out.trace]
    /\ best_regressor_' = SameObject(best_regressor_, pipe')
    /\ _regressor_search' =
           WithEstimator(_regressor_search,
                         SameObject(HeldEstimator(_regressor_search), pipe'))
    /\ UNCHANGED <<cfg, params, flag_vars, result_vars, ncv>>

\* -------------------------------------------------------- cross_validate
\* The estimator each fold's _fit_and_score receives, and what it is after the
\* fold fitted it on the fold's train rows.  (FoldEstimatorShared: every fold
\* handed the template itself.)
FoldEstimatorShared(p, i) == p
FoldEstimator(p, i) == clone(p, i)
FoldFitted(p, n, cols, k, i) == FitOn(FoldEstimator(p, i), KFoldTrain(n, k, i), cols)

\* self.pipe after the folds: fitting an object changes that object, so the
\* template changes exactly when a fold was handed the template itself.
TemplateAfterFolds(p, n, cols, k) ==
    LET hit == {i \in 1..k : FoldEstimator(p, i).oid = p.oid}
    IN  IF hit = {} THEN p
        ELSE FoldFitted(p, n, cols, k, CHOOSE i \in hit : \A j \in hit : j <= i)

\* _modified_cross_validate: the keys of the dictionary it returns.
ModifiedCvKeys(rts, ris) ==
    {"fit_time", "score_time", "test_score"}
        \cup (IF rts THEN {"train_score"} ELSE {})
        \cup (IF ris THEN {"incumbent_test_score"} ELSE {})

\* cross_validate, after _modified_cross_validate returned: with a negated
\* error scoring it reads scores_dict['train_score'] and ['test_score'].
CvError(scoring, keys) ==
    IF scoring \in NegErrorScorings /\ "train_score" \notin keys
    THEN "KeyError" ELSE "ok"

\* The row labels (the pandas index) of a data set of n rows, as the sequence
\* of the labels of positions 0..n-1: the default RangeIndex, the index of a
\* data set whose rows were put in reverse order or rotated by one (as
\* subsample leaves them: resample shuffles the rows and keeps their labels),
\* and a one-based index.
RangeIndex(n) == [q \in 1..n |-> q - 1]
Labelings(n) ==
    {RangeIndex(n),
     [q \in 1..n |-> n - q],
     [q \in 1..n |-> q % n],
     [q \in 1..n |-> q]}

\* The positions of the rows y.loc[test] selects: those whose label is in
\* test; a value of test that is no label is a KeyError.
LocRows(labels, test) ==
    IF \A t \in test : \E q \in DOMAIN labels : labels[q] = t
    THEN [err |-> "ok", rows |-> {q - 1 : q \in {r \in DOMAIN labels : labels[r] \in test}}]
    ELSE [err |-> "KeyError", rows |-> {}]

\* The rows the incumbent of fold i is scored on (line 394).
IncumbentRows(labels, n, k, i) == LocRows(labels, KFoldTest(n, k, i))

\* The incumbents are scored fold after fold: the first fold whose
\* y.loc[test] fails ends the loop, and neither it nor a later fold is scored.
\* The whole of cross_validate on n rows (labelled labels) of a target of type
\* tt and cols columns with k folds, but for the values of the score columns:
\* the template, the error, the keys and the row count of the DataFrame, what
\* each fold was handed.  Lines 397-400 reduce the incumbents' score frames
\* to numbers under the two scorings named there only; under any other the
\* incumbent column ends as the list of the frames self.score returned.
CvOutcome(p, c, n, tt, cols, k, ris, labels) ==
    LET p1 == PipeOrBuild(p, estimate_fold_size(n, k), tt)
        keys == ModifiedCvKeys(c.return_train_score, ris)
        failed == {i \in 1..k : IncumbentRows(labels, n, k, i).err # "ok"}
        locerr == ris /\ failed # {}
        err == IF locerr THEN "KeyError" ELSE CvError(c.scoring, keys)
    IN  [pipe |-> TemplateAfterFolds(p1, n, cols, k),
         err |-> err,
         trace |-> BuildTrace(p) \o [i \in 1..k |-> "cv_fold"]
                     \o (IF ris /\ ~locerr THEN [i \in 1..k |-> "incumbent_fold"]
                         ELSE <<>>),
         folds |-> [i \in 1..k |->
                      [estimator |-> FoldFitted(p1, n, cols, k, i),
                       train |-> KFoldTrain(n, k, i),
                       test |-> KFoldTest(n, k, i),
                       incumbent |-> IF ris /\ \A j \in failed : i < j
                                     THEN IncumbentRows(labels, n, k, i).rows
                                     ELSE {}]],
         ret |-> IF err = "ok"
                 THEN [kind |-> "DataFrame", keys |-> keys, nrows |-> k,
                       incumbent |-> IF ~ris THEN "none"
                                     ELSE IF c.scoring \in {"neg_mean_absolute_error",
                                                            "neg_mean_squared_error"}
                                     THEN "numbers" ELSE "frames"]
                 ELSE NoneObj]

\* cross_val_score after cross_validate returned: the test_score column, next
\* to the incumbent_test_score column with return_incumbent_score.
CrossValScoreColumns(ret, ris) ==
    IF ris
    THEN [ret EXCEPT !.keys = {"test_score", "incumbent_test_score"}]
    ELSE [kind |-> "Series", keys |-> {"test_score"}, nrows |-> ret.nrows,
          incumbent |-> "none"]

\* A call of cross_validate (op = "cross_validate") or of cross_val_score,
\* which calls it and selects columns of what it returned.
CvCall(op, n, yc, cvarg, ris, labels) ==
    /\ Enter
    /\ LET k == ResolveCv(cvarg, cfg.cv) IN
        /\ n >= k
        /\ LET out == CvOutcome(pipe, cfg, n, TargetType(yc, cfg.target_index),
                                TargetWidth(yc, cfg.target_index), k, ris, labels) IN
            /\ pipe' = out.pipe
            /\ call' = [op |-> op, err |-> out.err, n |-> n, yc |-> yc,
                        k |-> k,
                        ris |-> ris, labels |-> labels, trace |-> out.trace,
                        folds |-> out.folds,
                        ret |-> IF op = "cross_validate" \/ out.err # "ok" THEN out.ret
                                ELSE CrossValScoreColumns(out.ret, ris)]
    /\ _validated_data' = _validate_data(_validated_data, TRUE, TRUE).flag
    /\ best_regressor_' = SameObject(best_regressor_, pipe')
    /\ _regressor_search' =
           WithEstimator(_regressor_search,
                         SameObject(HeldEstimator(_regressor_search), pipe'))
    /\ UNCHANGED <<cfg, params, flag_vars, result_vars, ncv>>

CrossValidate(n, yc, cvarg, ris, labels) ==
    CvCall("cross_validate", n, yc, cvarg, ris, labels)

CrossValScore(n, yc, cvarg, ris) ==
    CvCall("cross_val_score", n, yc, cvarg, ris, RangeIndex(n))

\* cross_validate on data sets of every row labelling.
NextLabelled ==
    \E n \in RowCounts, cvarg \in CvArgs, ris \in BOOLEAN :
        \E labels \in Labelings(n) : CrossValidate(n, 1, cvarg, ris, labels)

SpecLabelled == Init /\ [][NextLabelled]_vars

\* ----------------------------------------------------------- baseboostcv
\* The columns of per-fold score magnitudes drawn for a k-fold run.  The code
\* reads a column through its length and its mean only, so one column is drawn
\* per multiset of magnitudes: the nondecreasing one.
ScoreColumns(k) ==
    {s \in [1..k -> ScoreVals] : \A i \in 1..(k - 1) : s[i] <= s[i + 1]}

\* The test_score column cross_validate returns for the backend's scores:
\* np.abs restores the sign of a negated error.
TestScoreColumn(scoring, cand) ==
    [i \in DOMAIN cand |->
        IF scoring \in NegErrorScorings THEN Abs(BackendScore(scoring, cand[i]))
        ELSE BackendScore(scoring, cand[i])]

\* mean(axis=0) of two columns of equal length, compared without division.
MeanGE(a, b) == SumSeq(a) * Len(b) >= SumSeq(b) * Len(a)

\* How the mean of column a stands to the mean of column b.
CompareMeans(a, b) ==
    IF SumSeq(a) * Len(b) > SumSeq(b) * Len(a) THEN "above"
    ELSE IF SumSeq(a) * Len(b) = SumSeq(b) * Len(a) THEN "equal" ELSE "below"

\* The gate with a strict comparison: a tie would keep the candidate.
GateStrict(candidate, incumbent) == ~MeanGE(incumbent, candidate)

\* _inbuilt_model_selection_step: mean_cross_val_score[0] >= mean_cross_val_score[1]
GateSelectsIncumbent(candidate, incumbent) == MeanGE(candidate, incumbent)

\* What the gate decides on each pair of columns drawn, next to how the two
\* means stand: the pairs that agree on both are one case.
GateCases(scoring, k) ==
    {[means |-> CompareMeans(TestScoreColumn(scoring, cand), inc),
      gate |-> GateSelectsIncumbent(TestScoreColumn(scoring, cand), inc)] :
        cand \in ScoreColumns(k), inc \in ScoreColumns(k)}

\* The decision flag as the decision of this call alone.
GateFlagPerCall(old, gate) == gate

\* _inbuilt_model_selection_step only ever sets the attribute
\* _return_incumbent (when the gate selects the incumbent); nothing removes it.
GateFlag(old, gate) == old \/ gate

\* baseboostcv fitting the candidate whatever the gate decided.
FitsAlways(flag) == TRUE

\* baseboostcv fits the candidate iff not hasattr(self, '_return_incumbent').
FitsCandidate(flag) == ~flag

\* cross_val_score.mean(axis=0) and the comparison of line 557 when the
\* incumbent column holds score frames instead of numbers: the mean of that
\* column is no number, and which exception the step ends with depends on
\* the pandas at hand (the column is dropped from the means and [1] is out of
\* range, or the mean itself is refused).
GateErrors == {"IndexError", "TypeError"}

\* baseboostcv: the gate (cross_val_score with the incumbent, on the call's
\* own data), get_pipeline when the pipe is missing, then fit with the
\* call's sample_weight unless the attribute _return_incumbent exists.
\* outcome is what the backend's fit does in this call ("ok" when it is not
\* called).
Baseboostcv(n, yc, sw, outcome) ==
    /\ Enter
    /\ n >= cfg.cv
    /\ ~sw => outcome = "ok"
    /\ LET tt == TargetType(yc, cfg.target_index)
           cols == TargetWidth(yc, cfg.target_index)
           out == CvOutcome(pipe, cfg, n, tt, cols, cfg.cv, TRUE, RangeIndex(n))
       IN
        IF out.err # "ok"
        THEN /\ outcome = "ok"
             /\ pipe' = out.pipe
             /\ call' = [op |-> "baseboostcv", err |-> out.err, n |-> n,
                         sample_weight |-> sw, backend |-> outcome,
                         trace |-> out.trace]
             /\ UNCHANGED flag_vars
        ELSE IF out.ret.incumbent # "numbers"
        THEN /\ outcome = "ok"
             /\ pipe' = out.pipe
             /\ \E err \in GateErrors :
                   call' = [op |-> "baseboostcv", err |-> err, n |-> n,
                            sample_weight |-> sw, backend |-> outcome,
                            trace |-> out.trace]
             /\ UNCHANGED flag_vars
        ELSE \E case \in GateCases(cfg.scoring, cfg.cv) :
             LET flag == GateFlag(_return_incumbent, case.gate)
                 fits == FitsCandidate(flag)
                 fit == BaseFit(out.pipe, n, tt, cols, sw, outcome)
             IN  /\ fits \/ outcome = "ok"
                 /\ _return_incumbent' = flag
                 /\ return_incumbent_' = (return_incumbent_ \/ ~fits)
                 /\ pipe' = IF fits THEN fit.pipe ELSE out.pipe
                 /\ call' = [op |-> "baseboostcv",
                             err |-> IF fits THEN fit.err ELSE "ok", n |-> n,
                             sample_weight |-> sw, backend |-> outcome,
                             means |-> case.means,
                             trace |-> out.trace \o <<"gate">>
                                         \o (IF fits THEN fit.trace ELSE <<>>),
                             ret |-> IF ~fits THEN "self"
                                     ELSE IF fit.err = "ok" THEN "pipe" ELSE "none"]
    /\ _validated_data' = _validate_data(_validated_data, TRUE, TRUE).flag
    /\ best_regressor_' = SameObject(best_regressor_, pipe')
    /\ _regressor_search' =
           WithEstimator(_regressor_search,
                         SameObject(HeldEstimator(_regressor_search), pipe'))
    /\ UNCHANGED <<cfg, params, result_vars, ncv>>

\* --------------------------------------------------------------- regattr
\* The attribute names drawn: one the sub-estimators have, one they lack.
RegAttrs == {"coef_", "no_such_attribute_"}

\* self.pipe.named_steps['reg'].estimators_ exists: a fitted pipeline that
\* was built for a multi-column target; it holds one sub-estimator per
\* column of the target of its last fit.  A sub-estimator has no named_steps.
HasEstimators(p) ==
    /\ p.kind = "Pipeline"
    /\ p.fittedOn # {}
    /\ p.target_type \in _MULTI_TARGET

\* The sub-estimator of target column t of the pipeline p, as the object
\* self.pipe refers to: a regressor with p's parameter, fitted on p's rows
\* and on the one column t.
SubEstimator(p, t) ==
    [kind |-> "SubEstimator", oid |-> 0, target |-> t, param |-> p.param,
     fittedOn |-> p.fittedOn, fittedCols |-> 1]

\* regattr: the comprehension's loop target is self.pipe, so every round
\* assigns the next sub-estimator to self.pipe before reading attr from it.
\* Without estimators_ nothing is assigned and the handler raises
\* AttributeError; an attribute the first sub-estimator lacks ends the loop
\* with self.pipe that sub-estimator; else self.pipe ends as the last one.
regattr(p, attr) ==
    IF p.kind = "None"
    THEN [err |-> "AssertionError", pipe |-> p, ret |-> NoneObj]
    ELSE IF ~HasEstimators(p)
    THEN [err |-> "AttributeError", pipe |-> p, ret |-> NoneObj]
    ELSE IF attr = "coef_"
    THEN [err |-> "ok", pipe |-> SubEstimator(p, p.fittedCols - 1),
          ret |-> [t \in 0..(p.fittedCols - 1) |-> [target |-> t, attr |-> attr]]]
    ELSE [err |-> "AttributeError", pipe |-> SubEstimator(p, 0), ret |-> NoneObj]

Regattr(attr) ==
    /\ Enter
    /\ LET out == regattr(pipe, attr) IN
        /\ pipe' = out.pipe
        /\ best_regressor_' = IF out.pipe = pipe THEN best_regressor_
                              ELSE Former(best_regressor_)
        /\ _regressor_search' = IF out.pipe = pipe THEN _regressor_search
                                ELSE WithEstimator(_regressor_search, Former(HeldEstimator(_regressor_search)))
        /\ call' = [op |-> "regattr", err |-> out.err, attr |-> attr,
                    ret |-> out.ret, trace |-> <<>>]
    /\ UNCHANGED <<cfg, params, _validated_data, flag_vars, result_vars, ncv>>

\* ---------------------------------------------------------- get_pipeline
\* A call of get_pipeline itself on a y of n rows and yc columns: y is
\* validated on its own, n_quantiles left None becomes the row count, the
\* target type is that of y as given (no slicing), and self.pipe is assigned a
\* new unfitted pipeline whether one exists or not; what referred to the
\* object self.pipe was keeps referring to it.
GetPipeline(n, yc, nqarg) ==
    /\ Enter
    /\ pipe' = get_pipeline(IF nqarg = {} THEN n ELSE CHOOSE q \in nqarg : TRUE,
                            TargetType(yc, {}))
    /\ best_regressor_' = Former(best_regressor_)
    /\ _regressor_search' = WithEstimator(_regressor_search, Former(HeldEstimator(_regressor_search)))
    /\ _validated_data' = _validate_data(_validated_data, FALSE, TRUE).flag
    /\ call' = [op |-> "get_pipeline", err |-> "ok", n |-> n, yc |-> yc,
                n_quantiles |-> nqarg, trace |-> <<"get_pipeline">>]
    /\ UNCHANGED <<cfg, params, flag_vars, result_vars, ncv>>

\* --------------------------------------------------------------- predict
\* X.iloc[:, target_index] when target_index is set, otherwise X.
RawSlice(X, ti) ==
    IF ti = {} THEN [kind |-> "frame", value |-> X]
    ELSE [kind |-> "column",
          value |-> [r \in DOMAIN X |-> X[r][(CHOOSE t \in ti : TRUE) + 1]]]

\* Regressor.predict: the incumbent flag is looked at first; else the
\* predict of whatever self.pipe holds.
PredictOutcome(ri, p, X, ti) ==
    IF ri THEN [err |-> "ok", by |-> "incumbent", ret |-> RawSlice(X, ti)]
    ELSE IF p.kind = "None" THEN [err |-> "AssertionError", by |-> "nobody", ret |-> NoneObj]
    ELSE IF p.fittedOn = {} THEN [err |-> "NotFittedError", by |-> "pipe", ret |-> NoneObj]
    ELSE [err |-> "ok", by |-> "pipe",
          ret |-> [kind |-> "pipe.predict", model |-> p, value |-> X]]

Predict(X) ==
    /\ Enter
    /\ LET out == PredictOutcome(return_incumbent_, pipe, X, cfg.target_index) IN
        call' = [op |-> "predict", err |-> out.err, X |-> X, by |-> out.by,
                 trace |-> IF out.by = "pipe" THEN <<"pipe.predict">> ELSE <<>>,
                 ret |-> out.ret]
    /\ _validated_data' = _validate_data(_validated_data, TRUE, FALSE).flag
    /\ UNCHANGED <<cfg, params, pipe, flag_vars, search_vars, ncv>>

\* ---------------------------------------------------------------- search
SearchMethods == {"gridsearchcv", "randomizedsearchcv", "bayesoptcv"}

\* re.match('neg', self.scoring): the name starts with the characters 'neg'.
StartsWithNeg(scoring) == Len(scoring) >= 3 /\ SubSeq(scoring, 1, 3) = "neg"

\* The sign left as the backend reported it.
RestoreNothing(scoring, v) == v

\* self.best_score_.loc['best_score'] *= -1.0 under a negated scoring.
RestoreSign(scoring, v) == IF StartsWithNeg(scoring) THEN v * (-1) ELSE v

\* The orchestrator attributes a search call reads and writes.
SearchState ==
    [pipe |-> pipe, rs |-> _regressor_search, opt |-> optimization,
     bp |-> best_params_, bs |-> best_score_, ss |-> search_summary_,
     cvr |-> cv_results_, rft |-> refit_time_, br |-> best_regressor_]

\* Whether the backend takes the search parameters for the estimator the
\* search is run on.  The parameter names are preprocessed for a pipeline, so
\* they fit a pipeline; for a sub-estimator in self.pipe they may or may not
\* (an empty search space fits any estimator).
BackendAccepts(p) == IF p.kind = "SubEstimator" THEN BOOLEAN ELSE {TRUE}

\* _search: build the pipe when missing, then configure the search mechanism.
\* Grid and randomized search make a new search object around self.pipe;
\* bayesoptcv runs the optimizer (its maximum has target m) and, only when
\* refit is set, makes self._regressor_search the estimator in self.pipe
\* itself with the best parameters set on it.
_search(st, c, method, k, rows, n, tt, m) ==
    LET p1 == PipeOrBuild(st.pipe, _estimate_fold_size(n, k), tt) IN
    IF method = "gridsearchcv" \/ method = "randomizedsearchcv"
    THEN [st EXCEPT !.pipe = p1,
                    !.rs = [kind |-> IF method = "gridsearchcv" THEN "GridSearchCV"
                                     ELSE "RandomizedSearchCV",
                            refit |-> c.refit, cv |-> k, fitted |-> FALSE]]
    ELSE LET opt == [kind |-> "BayesianOptimization",
                     target |-> BackendScore(c.scoring, m), params |-> BestParam,
                     rows |-> rows]
         IN  IF c.refit
             THEN [st EXCEPT !.pipe = [p1 EXCEPT !.param = BestParam], !.opt = opt,
                             !.rs = [p1 EXCEPT !.param = BestParam]]
             ELSE [st EXCEPT !.pipe = p1, !.opt = opt]

\* self._regressor_search.fit(X, y) on the rows of the call, a target of cols
\* columns: a search object finds its best parameter and best
\* (backend-signed) score and, with its own refit set, refits a copy of its
\* estimator on all the rows; an estimator is itself fitted on all the rows.
SearchFit(st, c, rows, cols, m) ==
    IF IsEstimator(st.rs)
    THEN [st EXCEPT !.rs = FitOn(st.rs, rows, cols),
                    !.pipe = SameObject(@, FitOn(st.rs, rows, cols)),
                    !.br = SameObject(@, FitOn(st.rs, rows, cols))]
    ELSE [st EXCEPT !.rs = [kind |-> st.rs.kind, refit |-> st.rs.refit,
                            cv |-> st.rs.cv, fitted |-> TRUE,
                            best_params_ |-> BestParam,
                            best_score_ |-> BackendScore(c.scoring, m),
                            rows |-> rows,
                            best_estimator_ |->
                                IF st.rs.refit
                                THEN FitOn([clone(st.pipe, 0) EXCEPT !.param = BestParam],
                                           rows, cols)
                                ELSE NoneObj]]

\* all(hasattr(self._regressor_search, attr) for attr in _sklearn_list)
HasSklearnAttrs(rs) ==
    /\ rs.kind \in {"GridSearchCV", "RandomizedSearchCV"}
    /\ rs.fitted
    /\ rs.best_estimator_.kind # "None"

\* What the handler around self._regressor_search.fit raises: it formats its
\* message with the bare name _regressor_search, which is no variable of the
\* method, so building the AttributeError fails with a NameError.
SearchHandlerError == "NameError"

\* search after _search: fit the mechanism, read the best parameters and score
\* (from the search object, or from the optimizer for bayesoptcv), restore the
\* sign, build the summary, take over the refitted model.  With parameters
\* the backend refuses (ok false), the optimizer of bayesoptcv raises the
\* ValueError of scikit-learn's set_params inside _search, before anything
\* is assigned, and the fit of a search object raises inside the handler.
SearchOutcome(st0, c, method, k, rows, n, tt, cols, m, ok) ==
    LET st1 == _search(st0, c, method, k, rows, n, tt, m)
        built == BuildTrace(st0.pipe)
        refused == ~ok /\ st1.pipe.kind = "SubEstimator"
    IN  IF refused /\ method = "bayesoptcv"
        THEN [st |-> st0, err |-> "ValueError", trace |-> built]
        ELSE IF st1.rs.kind = "None" \/ refused
        THEN [st |-> st1, err |-> SearchHandlerError, trace |-> built]
        ELSE
        LET st2 == SearchFit(st1, c, rows, cols, m)
            fits == built \o <<"search_fit">>
                      \o (IF IsEstimator(st1.rs) \/ st1.rs.refit
                          THEN <<"full_fit">> ELSE <<>>)
        IN  LET by == [method |-> method, cv |-> k, rows |-> rows]
                bp == IF method = "bayesoptcv"
                      THEN [kind |-> "Series", value |-> st2.opt.params, by |-> by]
                      ELSE [kind |-> "Series", value |-> st2.rs.best_params_, by |-> by]
                raw == IF method = "bayesoptcv" THEN st2.opt.target
                       ELSE st2.rs.best_score_
                bs == [kind |-> "Series", value |-> RestoreSign(c.scoring, raw), by |-> by]
                takes == HasSklearnAttrs(st2.rs)
                ss == [kind |-> "Series", best_score |-> bs.value,
                       best_params |-> bp.value, refit_time |-> takes]
            IN  [st |-> [st2 EXCEPT !.bp = bp, !.bs = bs, !.ss = ss,
                                    !.cvr = IF takes THEN [kind |-> "DataFrame"] ELSE @,
                                    !.rft = IF takes THEN [kind |-> "Series"] ELSE @,
                                    !.pipe = IF takes THEN st2.rs.best_estimator_ ELSE @,
                                    !.br = IF takes THEN st2.rs.best_estimator_
                                           ELSE SameObject(@, st2.pipe)],
                 err |-> "ok", trace |-> fits]

SetSearchState(st) ==
    /\ pipe' = st.pipe
    /\ _regressor_search' = st.rs
    /\ optimization' = st.opt
    /\ best_params_' = st.bp
    /\ best_score_' = st.bs
    /\ search_summary_' = st.ss
    /\ cv_results_' = st.cvr
    /\ refit_time_' = st.rft
    /\ best_regressor_' = st.br

Search(n, yc, method, cvarg) ==
    /\ Enter
    /\ LET k == ResolveCv(cvarg, cfg.cv) IN
        /\ n >= k
        /\ \E m \in BestScores, ok \in BackendAccepts(pipe) :
            LET out == SearchOutcome(SearchState, cfg, method, k, 0..(n - 1), n,
                                     TargetType(yc, cfg.target_index),
                                     TargetWidth(yc, cfg.target_index), m, ok) IN
                /\ SetSearchState(out.st)
                /\ call' = [op |-> "search", err |-> out.err, n |-> n, yc |-> yc,
                            method |-> method,
                            hadMechanism |-> (_regressor_search.kind # "None"),
                            trace |-> out.trace]
    /\ _validated_data' = _validate_data(_validated_data, TRUE, TRUE).flag
    /\ UNCHANGED <<cfg, params, flag_vars, ncv>>

\* ------------------------------------------------- nested_cross_validate
\* The search_method argument _search_and_score receives from
\* nested_cross_validate (line 858).
InnerSearchMethod(search_method) == "gridsearchcv"

\* The cv argument _search_and_score receives (line 858: cv=inner_cv).
InnerCv(inner_cv) == inner_cv

\* _safe_split(estimator, X, y, indices): the rows at the given positions.
_safe_split(indices) == indices

\* self.pipe._fit(X, y) of line 800 is a method of the class of what
\* self.pipe holds, which is no code of this module.  The _fit of a
\* scikit-learn pipeline fits the transformers and leaves the regressor
\* unfitted ("transformers"), another one may fit it ("fitted"), and a plain
\* regressor may have no method of that name ("AttributeError").
PipeFitOutcomes(p) ==
    IF p.kind = "SubEstimator" THEN {"fitted", "AttributeError"}
    ELSE {"fitted", "transformers"}

\* _search_and_score, first statement block: search on the fold's train rows.
UnitSearch(st, c, method, icv, n, tt, cols, ko, i, m, ok) ==
    SearchOutcome(st, c, InnerSearchMethod(method), InnerCv(icv),
                  _safe_split(KFoldTrain(n, ko, i)),
                  Cardinality(KFoldTrain(n, ko, i)), tt, cols, m, ok)

\* if not self.refit: self.pipe = clone(clone(self.pipe).set_params(
\* **self.best_params_)); self.pipe._fit(X_train, y_train)
UnitRefit(st, n, cols, ko, i, pf) ==
    LET cloned == [clone(clone(st.pipe, 0), 0) EXCEPT !.param = st.bp.value] IN
    [st |-> [st EXCEPT !.pipe = IF pf = "fitted"
                                 THEN FitOn(cloned, _safe_split(KFoldTrain(n, ko, i)), cols)
                                 ELSE cloned,
                       !.br = Former(@), !.rs = WithEstimator(@, Former(HeldEstimator(@)))],
     err |-> IF pf = "AttributeError" THEN "AttributeError" ELSE "ok"]

\* _score(estimator=self.pipe, X_test, y_test, scorer)['score']: the score of
\* the model p on the fold's outer-test rows, of magnitude q, with the
\* backend's sign.
UnitScore(p, n, ko, i, scoring, q) ==
    [model |-> p, rows |-> _safe_split(KFoldTest(n, ko, i)),
     value |-> BackendScore(scoring, q)]

\* Lines 863-869: np.abs of every unit's outer score and, with
\* return_inner_loop_score, np.abs of the units' inner best scores next to
\* them.
NestedReturn(pairs, rils) ==
    LET outer_loop_scores == [i \in DOMAIN pairs |->
                                 [pairs[i].outer EXCEPT !.value = Abs(@)]]
        inner_loop_scores == [i \in DOMAIN pairs |-> Abs(pairs[i].inner.value)]
    IN  IF rils
        THEN [kind |-> "tuple", outer_loop_scores |-> outer_loop_scores,
              inner_loop_scores |-> inner_loop_scores]
        ELSE [kind |-> "Series", outer_loop_scores |-> outer_loop_scores]

\* nested_cross_validate up to the dispatch of the fold units.  The units
\* run on the orchestrator itself (a bound method of self is dispatched), so
\* with a thread pool they share its attributes and interleave between any
\* two statements, and between the evaluation of a statement's right-hand
\* side and its store.  Each unit's record holds its position (pc) and its
\* locals: est, the estimator its _search handed to its search object; gs,
\* the search object its fit call works on; tgt, the pipeline its _fit call
\* works on (its name); tmp, the value it has evaluated and not yet stored;
\* ref, the Series it is changing in place; searched, the search it ran;
\* score, its test score; ret, its returned pair; err, what it raised.
\* rsHolder and bsHolder name the unit that made the object
\* self._regressor_search, self.best_score_ refers to (0: made before the
\* units ran).  ok and pf: whether the backend takes the search parameters,
\* and what self.pipe._fit does, for the estimator of this call.
NestedStart(n, yc, method, ocv, icv, rils) ==
    /\ Enter
    /\ LET ko == ResolveCv(ocv, cfg.cv)
           ki == ResolveCv(icv, cfg.cv)
       IN  /\ n >= ko
           /\ \A i \in 1..ko : Cardinality(KFoldTrain(n, ko, i)) >= ki
           /\ pipe' = PipeOrBuild(pipe, _estimate_fold_size(n, ko),
                                   TargetType(yc, cfg.target_index))
           /\ \E ok \in BackendAccepts(pipe), pf \in PipeFitOutcomes(pipe) :
                 /\ cfg.refit => pf = "fitted"
                 /\ ncv' = [kind |-> "nested", n |-> n, ko |-> ko, ki |-> ki,
                            tt |-> TargetType(yc, cfg.target_index),
                            cols |-> TargetWidth(yc, cfg.target_index),
                            method |-> method, rils |-> rils, ok |-> ok, pf |-> pf,
                            rsHolder |-> 0, bsHolder |-> 0,
                            fold |-> [i \in 1..ko |->
                                        [pc |-> "search", est |-> NoneObj, gs |-> 0,
                                         tgt |-> 0, tmp |-> NoneObj, ref |-> 0,
                                         searched |-> NoneObj,
                                         score |-> NoneObj, ret |-> NoneObj,
                                         err |-> "ok"]]]
           /\ call' = [op |-> "nested_cross_validate", err |-> "running", n |-> n,
                       trace |-> BuildTrace(pipe)]
    /\ _validated_data' = _validate_data(_validated_data, TRUE, TRUE).flag
    /\ UNCHANGED <<cfg, params, flag_vars, search_vars>>

\* Unit i is at the statement pc.
At(i, pc) == ~Idle /\ i \in DOMAIN ncv.fold /\ ncv.fold[i].pc = pc

\* The outer-train rows _safe_split gives unit i (lines 786-788).
UnitTrain(i) == _safe_split(KFoldTrain(ncv.n, ncv.ko, i))

\* Unit i goes on to the statement pc (holding the value tmp it evaluated,
\* or nothing); unit i raises err.
Goto(i, pc) == ncv' = [ncv EXCEPT !.fold[i].pc = pc, !.fold[i].tmp = NoneObj]
Hold(i, pc, tmp) == ncv' = [ncv EXCEPT !.fold[i].pc = pc, !.fold[i].tmp = tmp]
Raise(i, err) == ncv' = [ncv EXCEPT !.fold[i].pc = "raised", !.fold[i].err = err]

\* The statement after self.search in _search_and_score (line 797).
AfterSearch == IF cfg.refit THEN "score" ELSE "clone"

\* The search whose results a fitted search object holds.
SearchedBy(rs) ==
    [method |-> InnerSearchMethod(ncv.method), cv |-> rs.cv, rows |-> rs.rows]

\* A reference x once self.pipe is assigned the object named h: that object
\* takes the name 0, and the object self.pipe referred to until then the name
\* h.
Renamed(x, h) ==
    IF ~IsEstimator(x) THEN x
    ELSE IF x.oid = h THEN [x EXCEPT !.oid = 0]
    ELSE IF x.oid = 0 THEN [x EXCEPT !.oid = h]
    ELSE x

\* The statements at which the value a unit has read and not yet stored is
\* an estimator.
HoldsEstimator ==
    {"search_store", "take_pipe_store", "take_best_store", "take_pipe_again_store",
     "clone_store"}

\* The store of self.pipe = ref by unit i, which goes on to the statement
\* pc.  Every other reference keeps the object it refers to: what referred
\* to the object ref names, refers to self.pipe's object now, and what
\* referred to self.pipe's former object (a pipeline a unit is fitting
\* included), refers to it under its new name.
StorePipe(i, ref, pc) ==
    LET h == ref.oid IN
    /\ pipe' = Renamed(ref, h)
    /\ best_regressor_' = Renamed(best_regressor_, h)
    /\ _regressor_search' =
           WithEstimator(_regressor_search,
                         Renamed(HeldEstimator(_regressor_search), h))
    /\ ncv' = [ncv EXCEPT
                 !.fold = [j \in DOMAIN ncv.fold |->
                     IF j = i
                     THEN [ncv.fold[j] EXCEPT !.pc = pc, !.tmp = NoneObj,
                                              !.est = Renamed(@, h)]
                     ELSE [ncv.fold[j] EXCEPT
                              !.est = Renamed(@, h),
                              !.tmp = IF ncv.fold[j].pc \in HoldsEstimator
                                      THEN Renamed(@, h) ELSE @,
                              !.tgt = IF ncv.fold[j].pc # "refitting" THEN @
                                      ELSE IF @ = h THEN 0
                                      ELSE IF @ = 0 THEN h ELSE @]]]

\* A pipeline that is not the one self.pipe refers to, once the units ended.
Aside(est) == IF est.kind = "None" \/ est.oid = 0 THEN est ELSE [est EXCEPT !.oid = -1]

\* self.search, line 733: _search makes the unit's search object around
\* the pipeline self.pipe refers to now (the evaluation of the right-hand
\* side of lines 696-700), then binds self._regressor_search to it (the
\* store).
NcvBuild(i) ==
    /\ \/ /\ At(i, "search")
          /\ Hold(i, "search_store", pipe)
          /\ UNCHANGED _regressor_search
       \/ /\ At(i, "search_store")
          /\ _regressor_search' =
                 _search(SearchState, cfg, InnerSearchMethod(ncv.method),
                         InnerCv(ncv.ki), UnitTrain(i),
                         Cardinality(UnitTrain(i)), ncv.tt, 0).rs
          /\ ncv' = [ncv EXCEPT !.rsHolder = i, !.fold[i].pc = "fit",
                                !.fold[i].est = ncv.fold[i].tmp,
                                !.fold[i].tmp = NoneObj]
    /\ UNCHANGED <<cfg, calls, params, _validated_data, pipe, flag_vars, result_vars,
                   best_regressor_, call>>

\* Line 737, the call: self._regressor_search is read and fit begins on the
\* object it refers to now.
NcvFitBegin(i) ==
    /\ At(i, "fit")
    /\ ncv' = [ncv EXCEPT !.fold[i].pc = "fitting", !.fold[i].gs = ncv.rsHolder]
    /\ UNCHANGED <<cfg, calls, params, _validated_data, pipe, flag_vars, search_vars, call>>

\* Line 737, the return: the object fit was called on holds the results of
\* the search on the unit's outer-train rows.  self._regressor_search shows
\* them only while it still refers to that object.  A fit the backend
\* refuses raises inside the handler.
NcvFitEnd(i) ==
    /\ At(i, "fitting")
    /\ LET g == ncv.fold[i].gs IN
       IF ~ncv.ok /\ ncv.fold[g].est.kind = "SubEstimator"
       THEN /\ Raise(i, SearchHandlerError)
            /\ UNCHANGED _regressor_search
       ELSE /\ \E m \in BestScores :
                LET st == SearchFit([SearchState EXCEPT !.pipe = ncv.fold[g].est], cfg,
                                    UnitTrain(i), ncv.cols, m)
                IN  _regressor_search' =
                        IF ncv.rsHolder = g
                        THEN [st.rs EXCEPT !.best_estimator_ =
                                               IF @.kind = "None" THEN @
                                               ELSE [@ EXCEPT !.oid = i]]
                        ELSE _regressor_search
            /\ ncv' = [ncv EXCEPT !.fold[i].pc = "best_params",
                                  !.fold[i].searched =
                                      [kind |-> "Search",
                                       method |-> InnerSearchMethod(ncv.method),
                                       cv |-> InnerCv(ncv.ki), rows |-> UnitTrain(i)]]
    /\ UNCHANGED <<cfg, calls, params, _validated_data, pipe, flag_vars, result_vars,
                   best_regressor_, call>>

\* Line 745: self.best_params_ = pd.Series(self._regressor_search.best_params_),
\* the evaluation of the right-hand side, then the store.
NcvBestParams(i) ==
    /\ \/ /\ At(i, "best_params")
          /\ IF _regressor_search.fitted
             THEN Hold(i, "best_params_store",
                       [kind |-> "Series", value |-> _regressor_search.best_params_,
                        by |-> SearchedBy(_regressor_search)])
             ELSE Raise(i, "AttributeError")
          /\ UNCHANGED best_params_
       \/ /\ At(i, "best_params_store")
          /\ best_params_' = ncv.fold[i].tmp
          /\ Goto(i, "best_score")
    /\ UNCHANGED <<cfg, calls, params, _validated_data, pipe, flag_vars, _regressor_search,
                   optimization, best_score_, search_summary_, cv_results_,
                   refit_time_, best_regressor_, call>>

\* Line 746: self.best_score_ = pd.Series({'best_score':
\* self._regressor_search.best_score_}), the evaluation, then the store of
\* the new Series.
NcvBestScore(i) ==
    /\ \/ /\ At(i, "best_score")
          /\ IF _regressor_search.fitted
             THEN Hold(i, "best_score_store",
                       [kind |-> "Series", value |-> _regressor_search.best_score_,
                        by |-> SearchedBy(_regressor_search)])
             ELSE Raise(i, "AttributeError")
          /\ UNCHANGED best_score_
       \/ /\ At(i, "best_score_store")
          /\ best_score_' = ncv.fold[i].tmp
          /\ ncv' = [ncv EXCEPT !.fold[i].pc = "sign", !.fold[i].tmp = NoneObj,
                                !.bsHolder = i]
    /\ UNCHANGED <<cfg, calls, params, _validated_data, pipe, flag_vars, _regressor_search,
                   optimization, best_params_, search_summary_, cv_results_,
                   refit_time_, best_regressor_, call>>

\* Lines 759-760: under a scoring that starts with 'neg', the Series
\* self.best_score_ refers to now is loaded and its value read; then the
\* value with its sign restored is written into that Series: into what
\* self.best_score_ shows if it still refers to it, and into the array of it
\* a unit has returned (line 807 returns the Series' values, not a copy).
NcvRestoreSign(i) ==
    /\ \/ /\ At(i, "sign")
          /\ IF StartsWithNeg(cfg.scoring)
             THEN ncv' = [ncv EXCEPT !.fold[i].pc = "sign_store",
                                     !.fold[i].ref = ncv.bsHolder,
                                     !.fold[i].tmp = best_score_.value]
             ELSE Goto(i, "summary")
          /\ UNCHANGED best_score_
       \/ /\ At(i, "sign_store")
          /\ LET v == RestoreSign(cfg.scoring, ncv.fold[i].tmp)
                 h == ncv.fold[i].ref
             IN  /\ best_score_' = IF ncv.bsHolder = h
                                   THEN [best_score_ EXCEPT !.value = v]
                                   ELSE best_score_
                 /\ ncv' = [ncv EXCEPT
                              !.fold = [j \in DOMAIN ncv.fold |->
                                  IF j = i THEN [ncv.fold[j] EXCEPT !.pc = "summary",
                                                                    !.tmp = NoneObj]
                                  ELSE IF ncv.fold[j].ret.kind # "None"
                                          /\ ncv.fold[j].ret.holder = h
                                  THEN [ncv.fold[j] EXCEPT !.ret.inner.value = v]
                                  ELSE ncv.fold[j]]]
    /\ UNCHANGED <<cfg, calls, params, _validated_data, pipe, flag_vars, _regressor_search,
                   optimization, best_params_, search_summary_, cv_results_,
                   refit_time_, best_regressor_, call>>

\* Line 762: self.search_summary_ = pd.concat([self.best_score_,
\* self.best_params_]), the evaluation, then the store.
NcvSummary(i) ==
    /\ \/ /\ At(i, "summary")
          /\ Hold(i, "summary_store",
                  [kind |-> "Series", best_score |-> best_score_.value,
                   best_params |-> best_params_.value, refit_time |-> FALSE])
          /\ UNCHANGED search_summary_
       \/ /\ At(i, "summary_store")
          /\ search_summary_' = ncv.fold[i].tmp
          /\ Goto(i, "filter")
    /\ UNCHANGED <<cfg, calls, params, _validated_data, pipe, flag_vars, _regressor_search,
                   optimization, best_params_, best_score_, cv_results_,
                   refit_time_, best_regressor_, call>>

\* Line 766: the take-over is entered when self._regressor_search has the
\* sklearn attributes now.
NcvFilter(i) ==
    /\ At(i, "filter")
    /\ Goto(i, IF HasSklearnAttrs(_regressor_search) THEN "take_pipe"
               ELSE AfterSearch)
    /\ UNCHANGED <<cfg, calls, params, _validated_data, pipe, flag_vars, search_vars, call>>

\* Lines 767 and 769: self.pipe = self._regressor_search.best_estimator_,
\* the evaluation of the right-hand side (an AttributeError when the object
\* self._regressor_search refers to now has none), then the store.
NcvTakePipe(i) ==
    /\ \/ /\ At(i, "take_pipe") \/ At(i, "take_pipe_again")
          /\ IF HasSklearnAttrs(_regressor_search)
             THEN Hold(i, IF ncv.fold[i].pc = "take_pipe" THEN "take_pipe_store"
                          ELSE "take_pipe_again_store",
                       _regressor_search.best_estimator_)
             ELSE Raise(i, "AttributeError")
          /\ UNCHANGED <<pipe, _regressor_search, best_regressor_>>
       \/ /\ At(i, "take_pipe_store") \/ At(i, "take_pipe_again_store")
          /\ StorePipe(i, ncv.fold[i].tmp,
                       IF ncv.fold[i].pc = "take_pipe_store" THEN "take_best"
                       ELSE "take_cv")
    /\ UNCHANGED <<cfg, calls, params, _validated_data, flag_vars, result_vars, call>>

\* Line 768: self.best_regressor_ = self._regressor_search.best_estimator_,
\* the evaluation, then the store.
NcvTakeBest(i) ==
    /\ \/ /\ At(i, "take_best")
          /\ IF HasSklearnAttrs(_regressor_search)
             THEN Hold(i, "take_best_store", _regressor_search.best_estimator_)
             ELSE Raise(i, "AttributeError")
          /\ UNCHANGED best_regressor_
       \/ /\ At(i, "take_best_store")
          /\ best_regressor_' = ncv.fold[i].tmp
          /\ Goto(i, "take_pipe_again")
    /\ UNCHANGED <<cfg, calls, params, _validated_data, pipe, flag_vars, _regressor_search,
                   result_vars, call>>

\* Lines 770-772, each the evaluation of its right-hand side, then its
\* store: cv_results_ of the object self._regressor_search refers to now
\* (an AttributeError when it was not fitted), its refit_time_ (an
\* AttributeError when it was not refitted), and the summary that
\* self.search_summary_ shows now with the refit time added.
NcvTakeSummary(i) ==
    /\ \/ /\ At(i, "take_cv")
          /\ IF _regressor_search.fitted
             THEN Hold(i, "take_cv_store", [kind |-> "DataFrame"])
             ELSE Raise(i, "AttributeError")
          /\ UNCHANGED <<search_summary_, cv_results_, refit_time_>>
       \/ /\ At(i, "take_cv_store")
          /\ cv_results_' = ncv.fold[i].tmp
          /\ Goto(i, "take_time")
          /\ UNCHANGED <<search_summary_, refit_time_>>
       \/ /\ At(i, "take_time")
          /\ IF HasSklearnAttrs(_regressor_search)
             THEN Hold(i, "take_time_store", [kind |-> "Series"])
             ELSE Raise(i, "AttributeError")
          /\ UNCHANGED <<search_summary_, cv_results_, refit_time_>>
       \/ /\ At(i, "take_time_store")
          /\ refit_time_' = ncv.fold[i].tmp
          /\ Goto(i, "take_summary")
          /\ UNCHANGED <<search_summary_, cv_results_>>
       \/ /\ At(i, "take_summary")
          /\ Hold(i, "take_summary_store", [search_summary_ EXCEPT !.refit_time = TRUE])
          /\ UNCHANGED <<search_summary_, cv_results_, refit_time_>>
       \/ /\ At(i, "take_summary_store")
          /\ search_summary_' = ncv.fold[i].tmp
          /\ Goto(i, AfterSearch)
          /\ UNCHANGED <<cv_results_, refit_time_>>
    /\ UNCHANGED <<cfg, calls, params, _validated_data, pipe, flag_vars, _regressor_search,
                   optimization, best_params_, best_score_, best_regressor_, call>>

\* self.search(...) of unit i (lines 794-795), statement by statement.
NcvSearch(i) ==
    \/ NcvBuild(i)
    \/ NcvFitBegin(i)
    \/ NcvFitEnd(i)
    \/ NcvBestParams(i)
    \/ NcvBestScore(i)
    \/ NcvRestoreSign(i)
    \/ NcvSummary(i)
    \/ NcvFilter(i)
    \/ NcvTakePipe(i)
    \/ NcvTakeBest(i)
    \/ NcvTakeSummary(i)

\* Line 798: self.pipe = clone(clone(self.pipe).set_params(
\* **self.best_params_)), a new unfitted pipeline: the evaluation of the
\* right-hand side, then the store.
NcvClone(i) ==
    /\ \/ /\ At(i, "clone")
          /\ Hold(i, "clone_store",
                  [clone(clone(pipe, 0), i) EXCEPT !.param = best_params_.value])
          /\ UNCHANGED <<pipe, _regressor_search, best_regressor_>>
       \/ /\ At(i, "clone_store")
          /\ StorePipe(i, ncv.fold[i].tmp, "refit")
    /\ UNCHANGED <<cfg, calls, params, _validated_data, flag_vars, result_vars, call>>

\* Line 800, the call: self.pipe is read and _fit begins on the object it
\* refers to now; an object without the method raises.
NcvRefitBegin(i) ==
    /\ At(i, "refit")
    /\ IF ncv.pf = "AttributeError"
       THEN Raise(i, "AttributeError")
       ELSE ncv' = [ncv EXCEPT !.fold[i].pc = "refitting", !.fold[i].tgt = 0]
    /\ UNCHANGED <<cfg, calls, params, _validated_data, pipe, flag_vars, search_vars, call>>

\* Line 800, the return: the object _fit was called on is fitted on the
\* unit's outer-train rows (its regressor is, when _fit fits it), and so
\* shows in every reference to it; self.pipe shows it only while it still
\* refers to that object.
NcvRefitEnd(i) ==
    /\ At(i, "refitting")
    /\ LET Fitted(x) == IF IsEstimator(x) /\ x.oid = ncv.fold[i].tgt
                            /\ ncv.pf = "fitted"
                         THEN FitOn(x, UnitTrain(i), ncv.cols) ELSE x
       IN  /\ pipe' = Fitted(pipe)
           /\ best_regressor_' = Fitted(best_regressor_)
           /\ _regressor_search' =
                  WithEstimator(_regressor_search,
                                Fitted(HeldEstimator(_regressor_search)))
           /\ ncv' = [ncv EXCEPT
                        !.fold = [j \in DOMAIN ncv.fold |->
                            IF j = i
                            THEN [ncv.fold[j] EXCEPT !.pc = "score", !.tgt = 0,
                                                     !.est = Fitted(@)]
                            ELSE [ncv.fold[j] EXCEPT
                                     !.est = Fitted(@),
                                     !.tmp = IF ncv.fold[j].pc \in HoldsEstimator
                                             THEN Fitted(@) ELSE @]]]
    /\ UNCHANGED <<cfg, calls, params, _validated_data, flag_vars, result_vars, call>>

\* if not self.refit: lines 798-800 of unit i, statement by statement.
NcvRefit(i) ==
    \/ NcvClone(i)
    \/ NcvRefitBegin(i)
    \/ NcvRefitEnd(i)

\* Line 802: _score reads self.pipe and scores the object it refers to now
\* on the unit's outer-test rows; an unfitted regressor cannot predict.
NcvScore(i) ==
    /\ At(i, "score")
    /\ IF pipe.fittedOn # {}
       THEN \E q \in BestScores :
               ncv' = [ncv EXCEPT !.fold[i].pc = "return",
                                  !.fold[i].score =
                                      UnitScore(pipe, ncv.n, ncv.ko, i, cfg.scoring, q)]
       ELSE Raise(i, "NotFittedError")
    /\ UNCHANGED <<cfg, calls, params, _validated_data, pipe, flag_vars, search_vars, call>>

\* Line 807: return (self.best_score_.values, test_score), the values of the
\* Series self.best_score_ refers to now (holder names that Series).
NcvReturn(i) ==
    /\ At(i, "return")
    /\ ncv' = [ncv EXCEPT !.fold[i].pc = "done",
                          !.fold[i].ret = [kind |-> "tuple",
                                           inner |-> best_score_,
                                           holder |-> ncv.bsHolder,
                                           outer |-> ncv.fold[i].score]]
    /\ UNCHANGED <<cfg, calls, params, _validated_data, pipe, flag_vars, search_vars, call>>

\* The units that raised.
RaisedFolds == {i \in DOMAIN ncv.fold : ncv.fold[i].pc = "raised"}

\* parallel(...) is over when every unit has returned or raised.  With a
\* unit that raised, nested_cross_validate raises what the first of them
\* raised; else lines 863-869 build what it returns from the units' pairs.
NcvFinish ==
    /\ ~Idle
    /\ \A i \in DOMAIN ncv.fold : ncv.fold[i].pc \in {"done", "raised"}
    /\ call' = IF RaisedFolds = {}
               THEN [op |-> "nested_cross_validate", err |-> "ok", n |-> ncv.n,
                     ko |-> ncv.ko, rils |-> ncv.rils, trace |-> <<>>,
                     ret |-> NestedReturn([i \in DOMAIN ncv.fold |-> ncv.fold[i].ret],
                                          ncv.rils)]
               ELSE [op |-> "nested_cross_validate",
                     err |-> ncv.fold[CHOOSE i \in RaisedFolds :
                                          \A j \in RaisedFolds : i <= j].err,
                     n |-> ncv.n, ko |-> ncv.ko, rils |-> ncv.rils, trace |-> <<>>,
                     ret |-> NoneObj]
    /\ best_regressor_' = Aside(best_regressor_)
    /\ _regressor_search' =
           IF HasSklearnAttrs(_regressor_search)
           THEN [_regressor_search EXCEPT !.best_estimator_ = Aside(@)]
           ELSE _regressor_search
    /\ ncv' = NoneObj
    /\ UNCHANGED <<cfg, calls, params, _validated_data, pipe, flag_vars, result_vars>>

\* The fold units run one after another inside the call (n_jobs = 1): unit i
\* searches, refits when the search did not, and scores, before unit i + 1;
\* the first unit that raises ends the call.  acc holds the attributes, the
\* error and the pairs returned so far; inp what the backend does in this
\* call (m: the magnitude of the scores it reports; ok, pf: as in
\* NestedStart).
RECURSIVE SerialUnits(_, _, _, _, _, _, _, _, _, _)
SerialUnits(acc, c, method, icv, n, tt, cols, ko, i, inp) ==
    LET Refit(searched) ==
            IF searched.err # "ok" \/ c.refit
            THEN [st |-> searched.st, err |-> searched.err]
            ELSE UnitRefit(searched.st, n, cols, ko, i, inp.pf)
        Scored(refitted) ==
            IF refitted.err # "ok"
            THEN [st |-> refitted.st, err |-> refitted.err, pairs |-> acc.pairs]
            ELSE IF refitted.st.pipe.fittedOn = {}
            THEN [st |-> refitted.st, err |-> "NotFittedError", pairs |-> acc.pairs]
            ELSE [st |-> refitted.st, err |-> "ok",
                  pairs |-> Append(acc.pairs,
                                   [inner |-> refitted.st.bs,
                                    outer |-> UnitScore(refitted.st.pipe, n, ko, i,
                                                        c.scoring, inp.m)])]
    IN  IF i > ko \/ acc.err # "ok" THEN acc
        ELSE SerialUnits(
                 Scored(Refit(UnitSearch(acc.st, c, method, icv, n, tt, cols, ko, i,
                                         inp.m, inp.ok))),
                 c, method, icv, n, tt, cols, ko, i + 1, inp)

\* nested_cross_validate as one call whose units run serially.
NestedSerial(n, yc, method, ocv, icv, rils) ==
    /\ Enter
    /\ LET ko == ResolveCv(ocv, cfg.cv)
           ki == ResolveCv(icv, cfg.cv)
           tt == TargetType(yc, cfg.target_index)
       IN  /\ n >= ko
           /\ \A i \in 1..ko : Cardinality(KFoldTrain(n, ko, i)) >= ki
           /\ \E m \in BestScores, ok \in BackendAccepts(pipe),
                 pf \in PipeFitOutcomes(pipe) :
                 /\ cfg.refit => pf = "fitted"
                 /\ LET out == SerialUnits(
                                   [st |-> [SearchState EXCEPT !.pipe =
                                               PipeOrBuild(pipe, _estimate_fold_size(n, ko), tt)],
                                    err |-> "ok", pairs |-> <<>>],
                                   cfg, method, ki, n, tt,
                                   TargetWidth(yc, cfg.target_index), ko, 1,
                                   [m |-> m, ok |-> ok, pf |-> pf])
                    IN  /\ SetSearchState(out.st)
                        /\ call' = [op |-> "nested_cross_validate", err |-> out.err,
                                    n |-> n, yc |-> yc, ko |-> ko, rils |-> rils,
                                    trace |-> BuildTrace(pipe),
                                    ret |-> IF out.err = "ok"
                                            THEN NestedReturn(out.pairs, rils)
                                            ELSE NoneObj]
    /\ _validated_data' = _validate_data(_validated_data, TRUE, TRUE).flag
    /\ UNCHANGED <<cfg, params, flag_vars, ncv>>

NextNested ==
    \/ \E n \in RowCounts, method \in SearchMethods, icv \in CvArgs, rils \in BOOLEAN :
          calls = 0 /\ NestedStart(n, 1, method, {}, icv, rils)
    \/ \E i \in 1..MaxCv : NcvSearch(i)
    \/ \E i \in 1..MaxCv : NcvRefit(i)
    \/ \E i \in 1..MaxCv : NcvScore(i)
    \/ \E i \in 1..MaxCv : NcvReturn(i)
    \/ NcvFinish

\* A fresh Regressor with either refit and either scoring (the options the
\* fold units read), target_index None and return_train_score set.
InitNested ==
    /\ cfg \in {c \in Configs : c.target_index = {} /\ c.return_train_score}
    /\ Fresh

\* A fresh Regressor whose first call is nested_cross_validate, its fold
\* units running in threads.
SpecNested == InitNested /\ [][NextNested]_vars

\* --------------------------------------------------- fold-size estimate
\* The cv objects drawn: a fold count as an integer, or a splitter.
CvObjects ==
    {[kind |-> "int", value |-> k] : k \in 2..MaxEstimateRows}
        \cup {[kind |-> "KFold", n_splits |-> k] : k \in 2..MaxEstimateRows}

\* The estimate for n rows and the cv object, as each of the entry points
\* that size a missing pipeline computes it: cross_validate in line, search
\* and nested_cross_validate through _estimate_fold_size.
EstimateFoldSize(n, cv) ==
    /\ Idle
    /\ call' = [op |-> "_estimate_fold_size", err |-> "ok", n |-> n, cv |-> cv,
                k |-> FoldCountOf(cv),
                cross_validate |-> estimate_fold_size(n, FoldCountOf(cv)),
                search |-> _estimate_fold_size(n, FoldCountOf(cv)),
                nested_cross_validate |-> _estimate_fold_size(n, FoldCountOf(cv)),
                trace |-> <<>>]
    /\ UNCHANGED <<cfg, calls, params, _validated_data, pipe, flag_vars, search_vars, ncv>>

NextEstimate ==
    \E n \in 1..MaxEstimateRows, cv \in CvObjects : EstimateFoldSize(n, cv)

\* ------------------------------------------------------------ set_params
\* A keyword of a set_params call is the sequence of the segments that '__'
\* separates; key.partition('__') gives the first segment, whether a '__'
\* follows it, and the rest.
Partition(fullkey) ==
    [key |-> Head(fullkey), delim |-> Len(fullkey) > 1, sub_key |-> Tail(fullkey)]

\* The keywords drawn: the two parameters, a name that is no parameter, and
\* a nested keyword under a parameter.
Keywords == {<<"alpha">>, <<"tol">>, <<"bogus">>, <<"alpha", "x">>}
\* The values drawn with a keyword: every parameter value for a parameter,
\* one value for the others (their value is never stored).
KeywordValues(fullkey) ==
    IF Len(fullkey) = 1 /\ Head(fullkey) \in ParamKeys THEN ParamValues ELSE {0}
KwargEntries ==
    UNION {{[key |-> fullkey, value |-> v] : v \in KeywordValues(fullkey)} :
              fullkey \in Keywords}
\* **params: up to MaxKwargs entries in the order of the call, no keyword twice.
Kwargs ==
    UNION {{kw \in [1..len -> KwargEntries] :
               \A i, j \in 1..len : i # j => kw[i].key # kw[j].key} :
              len \in 0..MaxKwargs}

\* The loop of set_params from entry i on: valid_params is self.params itself
\* (get_params returns the mapping, not a copy), so an entry stored is stored
\* in the regressor at once; an entry whose key is no parameter raises
\* ValueError there and then; nested entries are collected and handed, after
\* the loop, to the set_params of the parameter's value, which a number does
\* not have (AttributeError).
RECURSIVE SetLoop(_, _, _, _)
SetLoop(valid_params, nested, kwargs, i) ==
    IF i > Len(kwargs)
    THEN [err |-> IF nested = {} THEN "ok" ELSE "AttributeError", params |-> valid_params]
    ELSE IF Partition(kwargs[i].key).key \notin DOMAIN valid_params
    THEN [err |-> "ValueError", params |-> valid_params]
    ELSE IF Partition(kwargs[i].key).delim
    THEN SetLoop(valid_params, nested \cup {Partition(kwargs[i].key).key}, kwargs, i + 1)
    ELSE SetLoop([valid_params EXCEPT ![Partition(kwargs[i].key).key] = kwargs[i].value],
                 nested, kwargs, i + 1)

\* BaseRegressor.get_params: self.params.
get_params(ps) == ps

\* BaseRegressor.set_params: nothing to do without keywords, else the loop.
set_params(ps, kwargs) ==
    IF kwargs = <<>> THEN [err |-> "ok", params |-> ps]
    ELSE SetLoop(get_params(ps), {}, kwargs, 1)

SetParams(kwargs) ==
    /\ Enter
    /\ LET out == set_params(params, kwargs) IN
        /\ params' = out.params
        /\ call' = [op |-> "set_params", err |-> out.err, kwargs |-> kwargs,
                    before |-> params, trace |-> <<>>]
    /\ UNCHANGED <<cfg, _validated_data, pipe, flag_vars, search_vars, ncv>>

\* Regressor() with its default arguments (lines 470-476).
DefaultConfig ==
    [target_index |-> {}, return_train_score |-> TRUE, refit |-> TRUE,
     scoring |-> "neg_mean_absolute_error", cv |-> 5]
InitDefault == cfg = DefaultConfig /\ Fresh

\* A call of _validate_data itself, with X, y, both or neither.
ValidateData(hasX, hasy) ==
    /\ Idle
    /\ LET out == _validate_data(_validated_data, hasX, hasy) IN
        /\ _validated_data' = out.flag
        /\ call' = [op |-> "_validate_data", err |-> out.err, X |-> hasX, y |-> hasy,
                    before |-> _validated_data, validated |-> out.validated,
                    message |-> IF out.err = "ValueError" THEN NoDataMessage ELSE "",
                    trace |-> <<>>]
    /\ UNCHANGED <<cfg, calls, params, pipe, flag_vars, search_vars, ncv>>

NextParams == \E kwargs \in Kwargs : SetParams(kwargs)

\* A default Regressor whose only calls are set_params.
SpecParams == InitDefault /\ [][NextParams]_vars

\* The fold-size estimate on its own.
SpecEstimate == InitDefault /\ [][NextEstimate]_vars

\* ----------------------------------------------------------------- score
\* _SCORE_CHOICE, and the names and multioutput values drawn for score: the
\* six metrics, a name that is no metric, the empty string; the three
\* multioutput values of scikit-learn, a string that is none, the empty string.
ScoreChoice == {"mae", "mse", "rmse", "r2", "ev", "msle"}
ScoringNames == ScoreChoice \cup {"mape", ""}
Multioutputs == {"raw_values", "uniform_average", "variance_weighted", "weighted", ""}

\* any(scoring for method in _SCORE_CHOICE): the truth value of the string
\* itself, once per element of a non-empty list.
AnyTruthy(string) == string # ""

\* The scikit-learn metric function behind a metric name, called with
\* multioutput: _check_reg_targets refuses a string outside its three
\* (ValueError); the error metrics then average with weights=multioutput
\* unless it is raw_values or uniform_average, which fails for the string
\* variance_weighted (TypeError); mean_squared_log_error refuses negative
\* targets (ValueError).
SklearnMetric(scoring, multioutput, negative) ==
    IF multioutput \notin {"raw_values", "uniform_average", "variance_weighted"}
    THEN "ValueError"
    ELSE IF scoring = "msle" /\ negative THEN "ValueError"
    ELSE IF scoring \in {"mae", "mse", "rmse", "msle"} /\ multioutput = "variance_weighted"
    THEN "TypeError"
    ELSE "ok"

\* BaseRegressor.score: the two asserts, the dispatch on the metric name (the
\* msle branch turns every exception into NaN), return score.
score(scoring, multioutput, negative) ==
    IF ~AnyTruthy(scoring) \/ ~AnyTruthy(multioutput)
    THEN [err |-> "AssertionError", ret |-> "none"]
    ELSE IF scoring \notin ScoreChoice
    THEN [err |-> "UnboundLocalError", ret |-> "none"]
    ELSE LET r == SklearnMetric(scoring, multioutput, negative) IN
         IF r = "ok" THEN [err |-> "ok", ret |-> "score"]
         ELSE IF scoring = "msle" THEN [err |-> "ok", ret |-> "nan"]
         ELSE [err |-> r, ret |-> "none"]

Score(scoring, multioutput, negative) ==
    /\ Idle
    /\ LET out == score(scoring, multioutput, negative) IN
        call' = [op |-> "score", err |-> out.err, scoring |-> scoring,
                 multioutput |-> multioutput, negative |-> negative,
                 trace |-> <<>>, ret |-> out.ret]
    /\ UNCHANGED <<cfg, calls, params, _validated_data, pipe, flag_vars, search_vars, ncv>>

NextScore ==
    \E scoring \in ScoringNames, multioutput \in Multioutputs, negative \in BOOLEAN :
        Score(scoring, multioutput, negative)

\* A Regressor whose only calls are score.
SpecScore == Init /\ [][NextScore]_vars

\* --------------------------------------------------------- target slicing
\* How many times in a row an entry point's target is sliced (baseboostcv,
\* then cross_validate, then score slice the same y again).
MaxSlices == 3

\* The first slicing of a target an entry point received.
SliceTarget(y) ==
    /\ Idle
    /\ LET out == _check_target_index(y, cfg.target_index) IN
        call' = [op |-> "_check_target_index", err |-> out.err, y |-> y,
                 times |-> 1, trace |-> <<>>, ret |-> out.y]
    /\ UNCHANGED <<cfg, calls, params, _validated_data, pipe, flag_vars, search_vars, ncv>>

\* The next slicing of the same target, further down the same entry point.
SliceAgain ==
    /\ Idle
    /\ call.op = "_check_target_index"
    /\ call.err = "ok"
    /\ call.times < MaxSlices
    /\ LET out == _check_target_index(call.ret, cfg.target_index) IN
        call' = [call EXCEPT !.err = out.err, !.times = @ + 1, !.ret = out.y]
    /\ UNCHANGED <<cfg, calls, params, _validated_data, pipe, flag_vars, search_vars, ncv>>

NextTarget ==
    \/ \E y \in Targets : SliceTarget(y)
    \/ SliceAgain

\* Target slicing on its own, applied once and again.
SpecTarget == Init /\ [][NextTarget]_vars

\* ------------------------------------------------------------------ Next
\* Keyword arguments drawn for set_params in the life of one orchestrator.
LifecycleKwargs ==
    {<<[key |-> <<"alpha">>, value |-> MaxParam]>>, <<[key |-> <<"bogus">>, value |-> 0]>>}

\* Every public method of a Regressor of any configuration, in any order, on
\* data of either width.
Next ==
    \/ \E n \in RowCounts, yc \in TargetWidths, sw \in BOOLEAN,
          outcome \in BackendFitOutcomes : Fit(n, yc, sw, outcome)
    \/ \E n \in RowCounts, yc \in TargetWidths, cvarg \in CvArgs, ris \in BOOLEAN :
          CrossValidate(n, yc, cvarg, ris, RangeIndex(n))
    \/ \E n \in RowCounts, yc \in TargetWidths, ris \in BOOLEAN :
          CrossValScore(n, yc, {}, ris)
    \/ \E n \in RowCounts, yc \in TargetWidths, sw \in BOOLEAN,
          outcome \in BackendFitOutcomes : Baseboostcv(n, yc, sw, outcome)
    \/ \E X \in PredictInputs : Predict(X)
    \/ \E n \in RowCounts, yc \in TargetWidths, method \in SearchMethods :
          Search(n, yc, method, {})
    \/ \E n \in RowCounts, yc \in TargetWidths, method \in SearchMethods,
          rils \in BOOLEAN : NestedSerial(n, yc, method, {}, {}, rils)
    \/ \E kwargs \in LifecycleKwargs : SetParams(kwargs)
    \/ \E n \in RowCounts, yc \in TargetWidths : GetPipeline(n, yc, {})
    \/ \E attr \in RegAttrs : Regattr(attr)

Spec == Init /\ [][Next]_vars

\* The configurations drawn for the life of one orchestrator: the default
\* options, and every option modelled set to its other value (the fold count
\* is MaxCv in both).
LifecycleConfigs ==
    {[target_index |-> {}, return_train_score |-> TRUE, refit |-> TRUE,
      scoring |-> "neg_mean_absolute_error", cv |-> MaxCv],
     [target_index |-> {NCols - 1}, return_train_score |-> FALSE, refit |-> FALSE,
      scoring |-> "r2", cv |-> MaxCv]}

\* Every public method, and _validate_data called on its own, in any order.
NextLifecycle ==
    \/ Next
    \/ \E hasX, hasy \in BOOLEAN : ValidateData(hasX, hasy)

\* A fresh Regressor of one of the lifecycle configurations.
InitLifecycle == cfg \in LifecycleConfigs /\ Fresh

SpecLifecycle == InitLifecycle /\ [][NextLifecycle]_vars

\* ================================================================ claims
Range(s) == {s[i] : i \in DOMAIN s}
CountOf(s, e) == Cardinality({i \in DOMAIN s : s[i] = e})
\* The positions of trace t before the first "gate" event (all, if there is none).
BeforeGate(t) == {i \in DOMAIN t : \A j \in 1..i : t[j] # "gate"}

\* C1: when baseboostcv finds the mean candidate error >= the mean incumbent
\* error (ties included) it does not fit the candidate on the full data and
\* sets the prediction-time flag; the flag stays set; and every predict under
\* the flag returns the raw X (column target_index of X when target_index is
\* set) without calling the pipeline's predict.
C1_IncumbentCase ==
    /\ [](( /\ call.op = "baseboostcv"
            /\ call.err = "ok"
            /\ call.means \in {"above", "equal"})
          => ("full_fit" \notin Range(call.trace) /\ return_incumbent_))
    /\ [][return_incumbent_ => return_incumbent_']_vars
    /\ []((call.op = "predict" /\ return_incumbent_)
          => /\ call.err = "ok"
             /\ "pipe.predict" \notin Range(call.trace)
             /\ IF cfg.target_index = {}
                THEN call.ret.kind = "frame" /\ call.ret.value = call.X
                ELSE /\ call.ret.kind = "column"
                     /\ \A r \in DOMAIN call.X : \A t \in cfg.target_index :
                            call.ret.value[r] = call.X[r][t + 1])

\* C1 witness: a predict answered with column target_index of X while the
\* pipe was never fitted.
C1_Witness ==
    /\ call.op = "predict"
    /\ call.err = "ok"
    /\ return_incumbent_
    /\ cfg.target_index # {}
    /\ pipe.kind = "Pipeline"
    /\ pipe.fittedOn = {}

\* C2: every baseboostcv call whose mean candidate error is strictly below the
\* mean incumbent error fits the candidate on the full data and leaves predict
\* to the pipeline, whatever an earlier call decided.
C2_CandidateCase ==
    (call.op = "baseboostcv" /\ call.err = "ok" /\ call.means = "below")
        => /\ "full_fit" \in Range(call.trace)
           /\ ~return_incumbent_
           /\ pipe.fittedOn = 0..(call.n - 1)

\* In a baseboostcv call: every full-data fit comes after the gate, the gate
\* after every fold's candidate and incumbent score, and no full-data fit
\* follows a gate that selected the incumbent.
GateBeforeFit ==
    call.op = "baseboostcv" =>
        /\ \A i \in DOMAIN call.trace :
              call.trace[i] = "full_fit" =>
                 /\ i \notin BeforeGate(call.trace)
                 /\ Cardinality({j \in BeforeGate(call.trace) :
                                    call.trace[j] = "cv_fold"}) = cfg.cv
                 /\ Cardinality({j \in BeforeGate(call.trace) :
                                    call.trace[j] = "incumbent_fold"}) = cfg.cv
        /\ (call.err = "ok" /\ call.means \in {"above", "equal"})
              => "full_fit" \notin Range(call.trace)
UngatedFullFit ==
    \E i \in BeforeGate(call.trace) : call.trace[i] = "full_fit"

\* C3 as stated: the gate completes before any full-data fit of a baseboostcv
\* call, none follows a gate that selected the incumbent, and a full-data fit
\* without a preceding gate occurs only through fit.
C3_Original ==
    /\ GateBeforeFit
    /\ UngatedFullFit => call.op = "fit"

\* C3 amended: ... and a full-data fit without a preceding gate occurs only
\* through fit or through search (the fit of its search mechanism: the refit
\* of a grid or randomized search, the fit of the pipe after bayesoptcv).
C3_GateBeforeFullFit ==
    /\ GateBeforeFit
    /\ UngatedFullFit => call.op \in {"fit", "search"}

\* C3 witness: a baseboostcv call that fitted the candidate after its gate.
C3_Witness ==
    /\ call.op = "baseboostcv"
    /\ "full_fit" \in Range(call.trace)
    /\ CountOf(call.trace, "cv_fold") = cfg.cv

\* C7: cross_validate hands every fold its own copy of the template and fits
\* only the copies: the fold estimators are pairwise distinct objects, none is
\* the template, each is fitted on its own fold's train rows, and the template
\* is after the call what it was before (or newly built and unfitted).
C7_FoldsFitClones ==
    /\ []((call.op = "cross_validate") =>
            /\ Len(call.folds) = call.k
            /\ \A i \in DOMAIN call.folds :
                  /\ call.folds[i].estimator.oid # pipe.oid
                  /\ call.folds[i].estimator.fittedOn = call.folds[i].train
                  /\ clone(call.folds[i].estimator, 0) = clone(pipe, 0)
                  /\ \A j \in DOMAIN call.folds :
                        i # j => call.folds[i].estimator.oid # call.folds[j].estimator.oid
            /\ "get_pipeline" \in Range(call.trace) => pipe.fittedOn = {})
    /\ [][(call'.op = "cross_validate" /\ pipe.kind # "None") => pipe' = pipe]_vars

\* C7 witness: a cross_validate over an existing, fitted template.
C7_Witness ==
    /\ call.op = "cross_validate"
    /\ call.err = "ok"
    /\ "get_pipeline" \notin Range(call.trace)
    /\ pipe.fittedOn # {}
    /\ Len(call.folds) >= 2

\* C8: with a negated-error scoring, for every return_train_score and
\* return_incumbent_score, cross_validate completes with one entry per fold
\* holding test_score, fit_time, score_time, train_score iff
\* return_train_score, incumbent_test_score iff return_incumbent_score.
C8_CrossValidateKeys ==
    (call.op = "cross_validate" /\ cfg.scoring \in NegErrorScorings) =>
        /\ call.err = "ok"
        /\ call.ret.nrows = call.k
        /\ {"test_score", "fit_time", "score_time"} \subseteq call.ret.keys
        /\ ("train_score" \in call.ret.keys) = cfg.return_train_score
        /\ ("incumbent_test_score" \in call.ret.keys) = call.ris

\* The score the search mechanism of the last search call reported.
BackendBest ==
    IF call.method = "bayesoptcv" THEN optimization.target
    ELSE _regressor_search.best_score_

\* C9: under a scoring whose name starts with 'neg', best_score_ is never
\* negative, and after a search call it is the backend's best score with its
\* sign flipped once.
C9_BestScoreNonnegative ==
    StartsWithNeg(cfg.scoring) =>
        /\ best_score_.kind # "None" => best_score_.value >= 0
        /\ (call.op = "search" /\ call.err = "ok")
              => best_score_.value = 0 - BackendBest

\* C9 witness: a second successful search whose backend score was negative.
C9_Witness ==
    /\ call.op = "search"
    /\ call.err = "ok"
    /\ call.hadMechanism
    /\ StartsWithNeg(cfg.scoring)
    /\ BackendBest < 0
    /\ best_score_.value > 0

\* C10: a search whose mechanism is not set fails with an AttributeError, and
\* a search that returns normally has set best_params_, best_score_ and
\* search_summary_ together.
C10_SearchStateError ==
    call.op = "search" =>
        /\ _regressor_search.kind = "None" => call.err = "AttributeError"
        /\ call.err = "ok" =>
              /\ best_params_.kind = "Series"
              /\ best_score_.kind = "Series"
              /\ search_summary_.kind = "Series"
              /\ best_params_.by = best_score_.by
              /\ search_summary_.best_score = best_score_.value
              /\ search_summary_.best_params = best_params_.value

\* C11: a fit with sample_weight whose backend raised a TypeError raises a
\* TypeError itself; it never returns normally with the pipe left unfitted.
C11_SampleWeightTypeError ==
    (call.op = "fit" /\ call.sample_weight /\ call.backend \in BackendTypeErrors)
        => call.err = "TypeError"

\* The metric / multioutput combinations score is to accept.
AcceptedCombination(scoring, multioutput) ==
    /\ scoring \in {"mae", "mse", "rmse", "r2", "ev", "msle"}
    /\ \/ multioutput \in {"raw_values", "uniform_average"}
       \/ (multioutput = "variance_weighted" /\ scoring \in {"r2", "ev"})

\* C12: score answers the accepted metric / multioutput combinations, and
\* rejects every other one with a validation error (a failed assertion or a
\* ValueError), returning neither a score nor NaN.
C12_ScoreValidation ==
    call.op = "score" =>
        IF AcceptedCombination(call.scoring, call.multioutput)
        THEN call.err = "ok" \/ (call.scoring = "msle" /\ call.negative)
        ELSE call.err \in {"AssertionError", "ValueError"} /\ call.ret = "none"

\* C13: slicing a target of several columns with target_index k (in range)
\* gives exactly its column k; slicing a single-column target, or slicing
\* without target_index, gives the target itself; and slicing again, any
\* number of times, gives what the first slicing gave.
C13_TargetSlicing ==
    call.op = "_check_target_index" =>
        IF cfg.target_index # {} /\ Len(call.y.cols) > 1
        THEN \A k \in cfg.target_index :
                k + 1 <= Len(call.y.cols) =>
                    /\ call.err = "ok"
                    /\ call.ret = [kind |-> "Series", cols |-> <<call.y.cols[k + 1]>>]
        ELSE call.err = "ok" /\ call.ret = call.y

\* C14: in a cross_validate with return_incumbent_score, whatever the row
\* labels of the data, every fold's incumbent is scored on exactly the rows
\* of the fold's test partition, the rows its candidate is scored on.
C14_IncumbentRows ==
    (call.op = "cross_validate" /\ call.ris) =>
        \A i \in DOMAIN call.folds :
            call.folds[i].incumbent = call.folds[i].test

\* The kind of search mechanism a search method configures.
MechanismOf(method) ==
    IF method = "gridsearchcv" THEN "GridSearchCV"
    ELSE IF method = "randomizedsearchcv" THEN "RandomizedSearchCV"
    ELSE "Pipeline"

\* C15: after a search call that returned, the search mechanism it fitted is
\* the one its own method configures (never a search object left by an
\* earlier call), best_params_ and best_score_ come from that call, the
\* summary is built from them, and best_regressor_, when set, is the pipeline
\* predict uses.
C15_SearchResultPerCall ==
    (call.op = "search" /\ call.err = "ok") =>
        /\ _regressor_search.kind = MechanismOf(call.method)
        /\ best_params_.by.method = call.method
        /\ best_score_.by.method = call.method
        /\ search_summary_.best_score = best_score_.value
        /\ best_regressor_.kind # "None" => best_regressor_ = pipe

\* The calls C16 speaks of.
PipelineCalls == {"fit", "baseboostcv", "cross_validate", "search", "nested_cross_validate"}

\* C16: in any sequence of calls, a fit, baseboostcv, cross_validate, search
\* or nested_cross_validate call builds the pipeline only when it finds none:
\* such a call that finds a pipeline does not run get_pipeline and leaves the
\* quantile count and the target type the pipeline has, whatever data or cv
\* the call passes (Idle: the step is a call, not a fold unit of a call under
\* way); and such a call that finds none builds it through get_pipeline.
C16_PipelineBuiltOnce ==
    [][call'.op \in PipelineCalls =>
        /\ pipe.kind # "None" =>
             /\ pipe'.kind = pipe.kind
             /\ Idle => "get_pipeline" \notin Range(call'.trace)
        /\ pipe.kind = "Pipeline" =>
             /\ pipe'.n_quantiles = pipe.n_quantiles
             /\ pipe'.target_type = pipe.target_type
        /\ (pipe.kind = "None" /\ pipe'.kind # "None") =>
             "get_pipeline" \in Range(call'.trace)]_vars

\* A fit on data of another target type and row count than the pipeline was
\* built for by an earlier call has left the pipeline's quantile count and
\* target type as they were.
C16_Witness ==
    /\ call.op = "fit"
    /\ call.err = "ok"
    /\ "get_pipeline" \notin Range(call.trace)
    /\ pipe.kind = "Pipeline"
    /\ pipe.n_quantiles # call.n
    /\ pipe.target_type # TargetType(call.yc, cfg.target_index)

\* C17: the data-validated flag only moves from unset to set, and only in a
\* call that validates X and y together; a validation call with only X or
\* only y leaves the flag as it was; once the flag is set a validation call
\* with data returns it without running the data checks; a validation call
\* with neither X nor y fails with a ValueError saying there is no data to
\* validate, whatever the flag.
C17_ValidatedFlag ==
    /\ [][/\ _validated_data => _validated_data'
          /\ (~_validated_data /\ _validated_data') =>
                \/ call'.op \in ValidatesBoth
                \/ call'.op = "_validate_data" /\ call'.X /\ call'.y]_vars
    /\ [](call.op = "_validate_data" =>
            (/\ ~(call.X /\ call.y) => _validated_data = call.before
             /\ (call.before /\ (call.X \/ call.y)) =>
                     call.err = "ok" /\ ~call.validated
             /\ (~call.X /\ ~call.y) =>
                     /\ call.err = "ValueError"
                     /\ Contains(call.message, "no data to validate")))

\* With the flag set by an earlier call, a validation call with X alone
\* (data of its own) has returned X without running the data checks.
C17_Witness ==
    /\ call.op = "_validate_data"
    /\ call.before
    /\ call.X /\ ~call.y
    /\ call.err = "ok"
    /\ ~call.validated
    /\ _validated_data

\* C18: the prediction-time flag return_incumbent_ is set only when the gate's
\* flag _return_incumbent is; no step of any operation unsets either; and
\* with return_incumbent_ set, predict returns the raw feature slice.
C18_IncumbentFlags ==
    /\ [](return_incumbent_ => _return_incumbent)
    /\ [][/\ _return_incumbent => _return_incumbent'
          /\ return_incumbent_ => return_incumbent_']_vars
    /\ []((return_incumbent_ /\ call.op = "predict") =>
             /\ call.err = "ok"
             /\ call.by = "incumbent"
             /\ call.ret = RawSlice(call.X, cfg.target_index))

\* After a baseboostcv call selected the incumbent and a search left its
\* refitted model on the orchestrator, predict has returned the raw feature
\* slice.
C18_Witness ==
    /\ return_incumbent_
    /\ _return_incumbent
    /\ best_regressor_.kind # "None"
    /\ call.op = "predict"
    /\ call.ret = RawSlice(call.X, cfg.target_index)

\* C20: for n rows and k folds with n >= k >= 2, k given as an integer or as
\* a splitter's n_splits, the estimate is n - (n div k + 1) in cross_validate,
\* in search and in nested_cross_validate alike; it does not exceed the
\* number of training rows of any fold of the k-fold split of the n rows; and
\* it is at least 1 whenever n >= 3.
C20_FoldSizeEstimate ==
    (call.op = "_estimate_fold_size" /\ call.n >= call.k /\ call.k >= 2) =>
        /\ call.cross_validate = call.n - ((call.n \div call.k) + 1)
        /\ call.search = call.cross_validate
        /\ call.nested_cross_validate = call.cross_validate
        /\ \A i \in 1..call.k :
              call.search <= Cardinality(KFoldTrain(call.n, call.k, i))
        /\ call.n >= 3 => call.search >= 1

\* An estimate for a splitter whose folds are uneven: it equals the training
\* rows of the largest fold's split and is below those of the smallest's.
C20_Witness ==
    /\ call.op = "_estimate_fold_size"
    /\ call.cv.kind = "KFold"
    /\ call.n >= 3
    /\ call.n >= call.k
    /\ call.n % call.k # 0
    /\ call.search = Cardinality(KFoldTrain(call.n, call.k, 1))
    /\ call.search < Cardinality(KFoldTrain(call.n, call.k, call.k))

\* C19: a set_params call that raised ValueError for a keyword that is no
\* parameter has changed no parameter: the mapping get_params returns is what
\* it was before the call.
C19_SetParamsAllOrNothing ==
    (call.op = "set_params" /\ call.err = "ValueError") =>
        get_params(params) = call.before

\* The outer folds whose inner search has run.
SearchedFolds == {i \in DOMAIN ncv.fold : ncv.fold[i].searched.kind # "None"}
\* The outer folds whose unit has returned its pair.
DoneFolds == {i \in DOMAIN ncv.fold : ncv.fold[i].pc = "done"}

\* C4: in nested_cross_validate the rows of every fold's inner search are
\* among the fold's outer-train rows and none of its outer-test rows, and the
\* fold's outer score is taken on its outer-test rows with a model trained
\* only on that fold's outer-train rows.
C4_OuterFoldRows ==
    ncv.kind = "nested" =>
        /\ \A i \in SearchedFolds :
              /\ ncv.fold[i].searched.rows \subseteq KFoldTrain(ncv.n, ncv.ko, i)
              /\ ncv.fold[i].searched.rows \cap KFoldTest(ncv.n, ncv.ko, i) = {}
        /\ \A i \in DoneFolds :
              /\ ncv.fold[i].ret.outer.rows = KFoldTest(ncv.n, ncv.ko, i)
              /\ ncv.fold[i].ret.outer.model.fittedOn # {}
              /\ ncv.fold[i].ret.outer.model.fittedOn \subseteq KFoldTrain(ncv.n, ncv.ko, i)

\* C5: every outer fold's inner search ran with the search method and the
\* inner_cv the caller of nested_cross_validate passed.
C5_CallerSearchMethod ==
    ncv.kind = "nested" =>
        \A i \in SearchedFolds :
            /\ ncv.fold[i].searched.method = ncv.method
            /\ ncv.fold[i].searched.cv = ncv.ki

\* C6: under every interleaving of the fold units, the pair a fold returns is
\* the one it produces alone: the inner best score of the search on its own
\* outer-train rows, and the outer score of the model fitted on exactly its
\* own outer-train rows.
C6_FoldsIndependent ==
    ncv.kind = "nested" =>
        \A i \in DoneFolds :
            /\ ncv.fold[i].ret.inner.by.rows = KFoldTrain(ncv.n, ncv.ko, i)
            /\ ncv.fold[i].ret.outer.model.fittedOn = KFoldTrain(ncv.n, ncv.ko, i)

====
